---- MODULE Spec2Model ----
(***************************************************************************)
(* A model of the layered, scoped, templated variable store of varmgr:     *)
(* StoreManager (lib/store_base.py), Renderer and RenderableStoreManager   *)
(* (lib/store_template.py), the expandvars engine                           *)
(* (lib/store_engine_expandvars.py) and the expander                        *)
(* (expandvars/expandvars.py).                                              *)
(*                                                                         *)
(* Representation.                                                         *)
(*  - A Python dict is a sequence of [k, v] entries in insertion order.     *)
(*  - Source(name, level): [kind |-> "Source", name, level]; level is      *)
(*    <<>> for None and <<n>> for the integer n.                            *)
(*  - A name written in a scope definition is [kind |-> "str", name,       *)
(*    level |-> <<>>], so that a list that holds names and a list that     *)
(*    holds Source objects can sit in the same dict, as they do in         *)
(*    set_scopes' obj_scopes.                                               *)
(*  - Layer(source, payload, meta): [source, payload]; the free-form meta  *)
(*    is read by no operation and is left out.                              *)
(*  - An exception is the name of its class in the field err; "none" is a  *)
(*    normal return.                                                        *)
(***************************************************************************)
EXTENDS Integers, Sequences, FiniteSets, TLC

VARIABLES
    sources,        \* StoreManager._sources: dict name -> Source
    scopes,         \* StoreManager._scopes: dict scope name -> [Source]
    layered_store,  \* StoreManager.layered_store: dict source name -> Layer
    declared,       \* ghost: the reference lists the caller has declared so far
    calls,          \* ghost: the number of calls made
    ret,            \* the last call: operation, form and exception raised
    renderers,      \* the Renderer objects made so far: scope, _cache, sources
    renderer_cache, \* RenderableStoreManager._renderer_cache: scope -> Renderer
    returned,       \* what the last call returned, <<>> when it raised
    text,           \* the string an ExpandParser over a dict is given
    environ,        \* the dict that ExpandParser reads and writes
    frames          \* the QueryCtl of the render_var call that runs, then its
                    \* parents, with the place each call has reached

vars == <<sources, scopes, layered_store, declared, calls, ret,
          renderers, renderer_cache, returned, text, environ, frames>>

store == <<sources, scopes, layered_store>>

rendering == <<renderers, renderer_cache, returned>>

expander == <<text, environ, frames>>

(***************************************************************************)
(* Python dicts, in insertion order.                                       *)
(***************************************************************************)
Range(s) == {s[i] : i \in 1..Len(s)}

DictKeys(d) == {d[i].k : i \in 1..Len(d)}

DictHas(d, key) == \E i \in 1..Len(d) : d[i].k = key

DictGet(d, key) == d[CHOOSE i \in 1..Len(d) : d[i].k = key].v

\* d[key] = val: an existing key keeps its place, a new key goes last.
DictSet(d, key, val) ==
    IF DictHas(d, key)
    THEN [i \in 1..Len(d) |-> IF d[i].k = key THEN [k |-> key, v |-> val] ELSE d[i]]
    ELSE Append(d, [k |-> key, v |-> val])

RECURSIVE DictUpdate(_, _)
\* d.update(other)
DictUpdate(d, other) ==
    IF other = <<>> THEN d
    ELSE DictUpdate(DictSet(d, Head(other).k, Head(other).v), Tail(other))

DictValues(d) == [i \in 1..Len(d) |-> d[i].v]

(***************************************************************************)
(* The universes the calls draw their arguments from.                      *)
(***************************************************************************)
DEFAULT_LEVEL == 500

SourceNames == {"a", "b"}

ScopeNames == {"S1", "S2", "S3"}

\* The order in which a caller writes the scope names in a dict literal.
ScopeOrder == <<"S1", "S2", "S3">>

Levels == {<<>>, <<100>>, <<500>>}

Source(name, level) == [kind |-> "Source", name |-> name, level |-> level]

Str(name) == [kind |-> "str", name |-> name, level |-> <<>>]

AllSources == {Source(n, l) : n \in SourceNames, l \in Levels}

(***************************************************************************)
(* StoreManager: sources.                                                  *)
(***************************************************************************)
\* add_sources(args, force) with args a single Source.
add_sources_single(srcs, arg, force) ==
    IF DictHas(srcs, arg.name) /\ ~force
    THEN [err |-> "AlreadyExistingSourceError", sources |-> srcs]
    ELSE [err |-> "none", sources |-> DictSet(srcs, arg.name, arg)]

RECURSIVE add_sources_list(_, _, _)
\* add_sources(args, force) with args a list of Source: the loop stores each
\* source under its name and reads neither force nor the names registered.
add_sources_list(srcs, args, force) ==
    IF args = <<>>
    THEN [err |-> "none", sources |-> srcs]
    ELSE add_sources_list(DictSet(srcs, Head(args).name, Head(args)), Tail(args), force)

(***************************************************************************)
(* StoreManager: scopes.                                                   *)
(***************************************************************************)
SeenHas(seen, name) == \E i \in 1..Len(seen) : seen[i] = name

RECURSIVE scope_solver_loop(_, _, _, _, _, _)
\* The for loop of scope_solver from item i on. acc holds the error raised so
\* far, out (kept flat: set_scopes flattens the nested result, and a Source is
\* a leaf of flatten) and _seen, the one list shared by every recursive call.
scope_solver_loop(scope_name, scope_items, i, scps, srcs, acc) ==
    IF acc.err # "none" \/ i > Len(scope_items) THEN acc
    ELSE LET item_ref == scope_items[i] IN
         IF item_ref.kind = "str" /\ DictHas(srcs, item_ref.name)
         THEN scope_solver_loop(scope_name, scope_items, i + 1, scps, srcs,
                  [acc EXCEPT !.out = Append(@, DictGet(srcs, item_ref.name))])
         ELSE IF item_ref.kind = "str" /\ DictHas(scps, item_ref.name)
         THEN IF SeenHas(acc.seen, item_ref.name)
              THEN [acc EXCEPT !.err = "VarMgrAppError", !.why = "recursive"]
              ELSE LET sub == scope_solver_loop(item_ref.name,
                                  DictGet(scps, item_ref.name), 1, scps, srcs,
                                  [err |-> "none", why |-> "", out |-> <<>>,
                                   seen |-> Append(acc.seen, item_ref.name)])
                   IN scope_solver_loop(scope_name, scope_items, i + 1, scps, srcs,
                          [err |-> sub.err, why |-> sub.why,
                           out |-> acc.out \o sub.out, seen |-> sub.seen])
         ELSE [acc EXCEPT !.err = "VarMgrAppError", !.why = "not found"]

\* scope_solver(scope_name, scope_items, scopes, sources) as set_scopes calls
\* it: _seen starts empty.
scope_solver(scope_name, scope_items, scps, srcs) ==
    scope_solver_loop(scope_name, scope_items, 1, scps, srcs,
                      [err |-> "none", why |-> "", out |-> <<>>, seen |-> <<>>])

RECURSIVE register_scopes(_, _, _, _, _)
\* The "Register scopes" loop of set_scopes over obj_scopes.items() from entry
\* i on. local_scopes is set_scopes' local variable `scopes`: bound only by
\* the one-argument form.
register_scopes(obj_scopes, i, local_scopes, srcs, out) ==
    IF i > Len(obj_scopes) THEN [err |-> "none", why |-> "", out |-> out]
    ELSE IF ~local_scopes.bound
    THEN [err |-> "UnboundLocalError", why |-> "scopes", out |-> out]
    ELSE LET r == scope_solver(obj_scopes[i].k, obj_scopes[i].v, local_scopes.val, srcs) IN
         IF r.err # "none" THEN [err |-> r.err, why |-> r.why, out |-> out]
         ELSE register_scopes(obj_scopes, i + 1, local_scopes, srcs,
                              DictSet(out, obj_scopes[i].k, r.out))

\* set_scopes(mapping): self._scopes is assigned only when every scope resolved.
set_scopes_map(scps, srcs, mapping) ==
    LET obj_scopes == DictUpdate(scps, mapping)
        r == register_scopes(obj_scopes, 1, [bound |-> TRUE, val |-> mapping], srcs, <<>>)
    IN [err |-> r.err, why |-> r.why,
        scopes |-> IF r.err = "none" THEN r.out ELSE scps]

\* set_scopes(name, scope)
set_scopes_pair(scps, srcs, name, scope) ==
    LET obj_scopes == DictSet(scps, name, scope)
        r == register_scopes(obj_scopes, 1, [bound |-> FALSE, val |-> <<>>], srcs, <<>>)
    IN [err |-> r.err, why |-> r.why,
        scopes |-> IF r.err = "none" THEN r.out ELSE scps]

\* lvl_sorter of get_ordered_sources
\* lvl_sorter with a source without level sorted before every level
lvl_sorter_none_first(item) == IF item.level = <<>> THEN 0 ELSE item.level[1]

lvl_sorter(item) == IF item.level = <<>> THEN DEFAULT_LEVEL ELSE item.level[1]

RECURSIVE sorted_insert(_, _)
\* one element placed after every element whose key is not greater: the
\* stable order Python's sorted() guarantees.
sorted_insert(s, x) ==
    IF s = <<>> THEN <<x>>
    ELSE IF lvl_sorter(x) < lvl_sorter(Head(s)) THEN <<x>> \o s
    ELSE <<Head(s)>> \o sorted_insert(Tail(s), x)

RECURSIVE sorted_by_level(_)
\* sorted(values, key=lvl_sorter)
sorted_by_level(s) ==
    IF s = <<>> THEN <<>>
    ELSE sorted_insert(sorted_by_level(SubSeq(s, 1, Len(s) - 1)), s[Len(s)])

NoScope == "None"

\* get_ordered_sources(scope): an unknown scope is a KeyError.
get_ordered_sources(srcs, scps, scope) ==
    IF scope = NoScope
    THEN [err |-> "none", val |-> sorted_by_level(DictValues(srcs))]
    ELSE IF DictHas(scps, scope)
    THEN [err |-> "none", val |-> DictGet(scps, scope)]
    ELSE [err |-> "KeyError", val |-> <<>>]

get_source_names(srcs, scps, scope) ==
    LET r == get_ordered_sources(srcs, scps, scope)
    IN [err |-> r.err, val |-> [i \in 1..Len(r.val) |-> r.val[i].name]]

(***************************************************************************)
(* StoreManager: layers and variables.                                     *)
(***************************************************************************)
Layer(source, payload) == [source |-> source, payload |-> payload]

\* set_layer keeping every layer it was given, a list rather than a dict
set_layer_appending(srcs, layers, source_name, dataset) ==
    IF ~DictHas(srcs, source_name)
    THEN [err |-> "VarMgrAppError", layered_store |-> layers]
    ELSE [err |-> "none",
          layered_store |-> Append(layers, [k |-> source_name,
                                            v |-> Layer(DictGet(srcs, source_name), dataset)])]

\* set_layer(source_name, dataset)
set_layer(srcs, layers, source_name, dataset) ==
    IF ~DictHas(srcs, source_name)
    THEN [err |-> "VarMgrAppError", layered_store |-> layers]
    ELSE [err |-> "none",
          layered_store |-> DictSet(layers, source_name,
                                    Layer(DictGet(srcs, source_name), dataset))]

RECURSIVE layers_of(_, _)
\* the loop of get_ordered_layers over accepted_sources
layers_of(accepted_sources, layers) ==
    IF accepted_sources = <<>> THEN <<>>
    ELSE (IF DictHas(layers, Head(accepted_sources).name)
          THEN <<DictGet(layers, Head(accepted_sources).name)>> ELSE <<>>)
         \o layers_of(Tail(accepted_sources), layers)

get_ordered_layers(srcs, scps, layers, scope) ==
    LET r == get_ordered_sources(srcs, scps, scope)
    IN [err |-> r.err, val |-> IF r.err = "none" THEN layers_of(r.val, layers) ELSE <<>>]

RECURSIVE get_var_loop_last(_, _)
\* the loop of get_var without its break: the last layer that holds name wins
get_var_loop_last(ordered, name) ==
    IF ordered = <<>> THEN [err |-> "UndefinedVarError", val |-> <<>>]
    ELSE LET rest == get_var_loop_last(Tail(ordered), name)
         IN IF rest.err = "none" THEN rest
            ELSE IF DictHas(Head(ordered).payload, name)
            THEN [err |-> "none", val |-> <<Head(ordered)>>]
            ELSE rest

RECURSIVE get_var_loop(_, _)
\* the loop of get_var with debug=False: the first layer whose payload holds name
get_var_loop(ordered, name) ==
    IF ordered = <<>> THEN [err |-> "UndefinedVarError", val |-> <<>>]
    ELSE IF DictHas(Head(ordered).payload, name)
    THEN [err |-> "none", val |-> <<Head(ordered)>>]
    ELSE get_var_loop(Tail(ordered), name)

\* get_var(name, scope); val is <<layer>> on a normal return.
get_var(srcs, scps, layers, name, scope) ==
    LET r == get_ordered_layers(srcs, scps, layers, scope)
    IN IF r.err # "none" THEN [err |-> r.err, val |-> <<>>]
       ELSE get_var_loop(r.val, name)

\* get_value(name, scope); val is <<value>> on a normal return.
get_value(srcs, scps, layers, name, scope) ==
    LET r == get_var(srcs, scps, layers, name, scope)
    IN IF r.err # "none" THEN [err |-> r.err, val |-> <<>>]
       ELSE [err |-> "none", val |-> <<DictGet(r.val[1].payload, name)>>]

\* get_var_names(scope), as a set (the code returns list(set(...)))
get_var_names(srcs, scps, layers, scope) ==
    LET r == get_ordered_layers(srcs, scps, layers, scope)
    IN UNION {DictKeys(r.val[i].payload) : i \in 1..Len(r.val)}

(***************************************************************************)
(* Values and payloads. A value is [t, v]: its type and the characters of  *)
(* its textual form, one character per element.                            *)
(***************************************************************************)
StrVal(chars) == [t |-> "str", v |-> chars]

Keys == {"x", "y", "z"}

E(key, val) == [k |-> key, v |-> val]

\* The datasets set_layer is given in the store specification.
Datasets ==
    { <<E("x", StrVal(<<"1">>))>>,
      <<E("x", StrVal(<<"2">>)), E("y", StrVal(<<"2">>))>> }

(***************************************************************************)
(* Text. A string is the sequence of its characters; a key of a payload is *)
(* a TLA+ string, joined from the characters the parser read.              *)
(***************************************************************************)
ESCAPE_CHAR == "\\"

var_symbol == "$"

\* feat_pid=True: the text of os.getpid()
getpid_text == <<"4", "2">>

\* ExpandVarsInstance.render_template passes feat_pid="$$"
feat_pid == <<"$", "$">>

DigitSeq == <<"0", "1", "2", "3", "4", "5", "6", "7", "8", "9">>

Digits == Range(DigitSeq)

Letters ==
    {"a", "b", "c", "d", "e", "f", "g", "h", "i", "j", "k", "l", "m",
     "n", "o", "p", "q", "r", "s", "t", "u", "v", "w", "x", "y", "z",
     "A", "B", "C", "D", "E", "F", "G", "H", "I", "J", "K", "L", "M",
     "N", "O", "P", "Q", "R", "S", "T", "U", "V", "W", "X", "Y", "Z"}

\* char.isalnum() or char == "_"
_valid_char(char) == char \in Letters \cup Digits \cup {"_"}

RECURSIVE JoinChars(_)
\* "".join(buff)
JoinChars(buff) == IF buff = <<>> THEN "" ELSE Head(buff) \o JoinChars(Tail(buff))

IsSpace(c) == c \in {" ", "\t", "\n"}

RECURSIVE lstrip(_)
lstrip(s) == IF s # <<>> /\ IsSpace(Head(s)) THEN lstrip(Tail(s)) ELSE s

RECURSIVE rstrip(_)
rstrip(s) == IF s # <<>> /\ IsSpace(s[Len(s)]) THEN rstrip(SubSeq(s, 1, Len(s) - 1)) ELSE s

\* str.strip()
strip(s) == rstrip(lstrip(s))

\* the digits of an int literal: after strip(), an optional sign dropped
IntBody(s) ==
    LET t == strip(s)
    IN IF t # <<>> /\ Head(t) \in {"+", "-"} THEN Tail(t) ELSE t

\* int(val) succeeds: digits, single underscores between digits allowed
_isint(val) ==
    LET b == IntBody(val)
    IN /\ b # <<>>
       /\ \A i \in 1..Len(b) : b[i] \in Digits \cup {"_"}
       /\ b[1] # "_" /\ b[Len(b)] # "_"
       /\ \A i \in 1..(Len(b) - 1) : ~(b[i] = "_" /\ b[i + 1] = "_")

DigitVal(c) == (CHOOSE i \in 1..Len(DigitSeq) : DigitSeq[i] = c) - 1

RECURSIVE NatOf(_, _)
NatOf(b, acc) ==
    IF b = <<>> THEN acc
    ELSE IF Head(b) = "_" THEN NatOf(Tail(b), acc)
    ELSE NatOf(Tail(b), 10 * acc + DigitVal(Head(b)))

\* int(val), for a val that _isint accepts
ToInt(val) ==
    LET t == strip(val)
    IN IF Head(t) = "-" THEN 0 - NatOf(IntBody(val), 0) ELSE NatOf(IntBody(val), 0)

\* an index of a slice brought into 0..n, as Python does
ClampIndex(i, n) ==
    IF i < 0 THEN (IF n + i < 0 THEN 0 ELSE n + i) ELSE IF i > n THEN n ELSE i

\* hi read as a number of characters: s[lo:lo + hi]
SliceByLength(s, lo, hi) ==
    IF lo < 0 \/ lo >= Len(s) \/ hi <= 0 THEN <<>>
    ELSE SubSeq(s, lo + 1, IF lo + hi > Len(s) THEN Len(s) ELSE lo + hi)

\* s[lo:hi]
PySlice(s, lo, hi) ==
    LET a == ClampIndex(lo, Len(s))
        b == ClampIndex(hi, Len(s))
    IN IF a < b THEN SubSeq(s, a + 1, b) ELSE <<>>

\* s[lo:]
PySliceFrom(s, lo) == PySlice(s, lo, Len(s))

\* the length of the longest prefix of s made of valid name characters
RECURSIVE NameLen(_)
NameLen(s) == IF s # <<>> /\ _valid_char(Head(s)) THEN 1 + NameLen(Tail(s)) ELSE 0

\* a count that sees no run
NoRun(s) == 0

\* the length of the run of var_symbol s starts with
RECURSIVE SymbolRun(_)
SymbolRun(s) == IF s # <<>> /\ Head(s) = var_symbol THEN 1 + SymbolRun(Tail(s)) ELSE 0

RECURSIVE Repeat(_, _)
Repeat(c, n) == IF n <= 0 THEN <<>> ELSE <<c>> \o Repeat(c, n - 1)

\* the place of the first element of s that is in the set cs, 0 if none
FirstOf(s, cs) ==
    IF \E i \in 1..Len(s) : s[i] \in cs
    THEN CHOOSE i \in 1..Len(s) : s[i] \in cs /\ \A j \in 1..(i - 1) : s[j] \notin cs
    ELSE 0

\* None, what dict.get gives for a missing key
NoneVal == [t |-> "none", v |-> <<"N", "o", "n", "e">>]

\* bool(val): an empty string, 0, False and None are false
Truthy(val) ==
    CASE val.t = "str" -> val.v # <<>>
      [] val.t = "int" -> IF _isint(val.v) THEN ToInt(val.v) # 0 ELSE TRUE
      [] val.t = "bool" -> val.v = <<"T", "r", "u", "e">>
      [] val.t = "none" -> FALSE
      [] OTHER -> TRUE

\* str(val)
PyStr(val) == StrVal(val.v)

\* the name a value is looked up under: a str is its own text, any other
\* value equals no key of a payload
KeyName(val) ==
    IF val.t = "str" THEN JoinChars(val.v) ELSE JoinChars(<<val.t, ":">> \o val.v)

(***************************************************************************)
(* Rendering. Every function of the expander and of the Renderer returns   *)
(* [err, val, cache]: the exception raised ("none" on a normal return),    *)
(* the value returned and the renderer's _cache as the call leaves it.     *)
(* ctx holds what a frame reads: the store (srcs, scps, layers), the       *)
(* renderer's scope, the settings of the top-level call and chain, the     *)
(* key_ctl of the frame's QueryCtl followed by those of its parents.       *)
(* QueryCtl.lvl, seen, children and the report dict are written and never  *)
(* read back by the code, and are left out.                                *)
(* ctx.lazy tells the environ of the expander: the LazyQueryDict of a      *)
(* Renderer, or a plain dict, which is then what the third component of a  *)
(* result holds in place of a _cache.                                      *)
(***************************************************************************)
Ok(val, cache) == [err |-> "none", val |-> val, cache |-> cache]

Raise(err, cache) == [err |-> err, val |-> StrVal(<<>>), cache |-> cache]

Lit(chars, cache) == Ok(StrVal(chars), cache)

\* a + b, a evaluated before b
Add(a, b) ==
    IF a.err # "none" THEN a
    ELSE IF b.err # "none" THEN b
    ELSE IF a.val.t = "str" /\ b.val.t = "str"
    THEN Ok(StrVal(a.val.v \o b.val.v), b.cache)
    ELSE Raise("TypeError", b.cache)

\* str(r)
StrOf(r) == IF r.err # "none" THEN r ELSE Ok(PyStr(r.val), r.cache)

\* the subclasses of ExpandvarsException
ExpandvarsException ==
    {"MissingClosingBrace", "MissingExcapedChar", "OperandExpected",
     "NegativeSubStringExpression", "BadSubstitution", "ParameterNullOrNotSet",
     "UnboundVariable"}

\* a hook of RenderingSettings: the class Exception, a callable or a literal
Hook(kind, val) == [kind |-> kind, val |-> val]

RaiseHook == Hook("Exception", StrVal(<<>>))

RenderingSettings(ote, oue, oute, template, debug, cache) ==
    [on_templating_error |-> ote, on_undefined_error |-> oue,
     on_undefined_template_error |-> oute,
     template |-> template, debug |-> debug, cache |-> cache]

Ctx(srcs, scps, layers, scope, settings, chain) ==
    [srcs |-> srcs, scps |-> scps, layers |-> layers, scope |-> scope,
     settings |-> settings, chain |-> chain, lazy |-> TRUE]

\* a check that finds no key twice
NeverCircular(chain) == TRUE

\* QueryCtl.is_not_circular(): the frame's own key is not a key of a parent
is_not_circular(chain) ==
    IF Len(chain) <= 1 THEN TRUE
    ELSE \A i \in 2..Len(chain) : chain[i] # chain[1]

\* ExpandVarsEngine.is_template
is_template(data) == data.t = "str" /\ var_symbol \in Range(data.v)

\* the place of the "}" that closes the modifier at depth 0, 0 if there is none
RECURSIVE ModifierEnd(_, _, _)
ModifierEnd(vars_, i, depth) ==
    IF i > Len(vars_) THEN 0
    ELSE IF vars_[i] = "{" THEN ModifierEnd(vars_, i + 1, depth + 1)
    ELSE IF vars_[i] = "}"
    THEN (IF depth = 1 THEN i ELSE ModifierEnd(vars_, i + 1, depth - 1))
    ELSE ModifierEnd(vars_, i + 1, depth)

\* val[offset:] and val[offset:width] of the str(...) of a lookup
SliceFrom(r, offset) ==
    IF r.err # "none" THEN r ELSE Lit(PySliceFrom(r.val.v, offset), r.cache)

Slice(r, offset, width) ==
    IF r.err # "none" THEN r ELSE Lit(PySlice(r.val.v, offset, width), r.cache)

\* modifier if the looked-up value is truthy, else ""
Substitute(r, modifier) ==
    IF r.err # "none" THEN r
    ELSE IF Truthy(r.val) THEN Lit(modifier, r.cache)
    ELSE Lit(<<>>, r.cache)

\* the end of getenv with nounset=False: the value if truthy, else the
\* default, else ""; default is <<>> for None
OrDefault(val, default) ==
    IF val.err # "none" THEN val
    ELSE IF Truthy(val.val) THEN val
    ELSE IF default # <<>> THEN Lit(default[1], val.cache)
    ELSE Lit(<<>>, val.cache)

\* EXPANDVARS_RECOVER_NULL is not set in the process environment: None
RECOVER_NULL == <<>>

\* the end of _expand_strict, r being environ.get(var, ""): the value if
\* truthy, else RECOVER_NULL, else the error
StrictOr(r) ==
    IF r.err # "none" THEN r
    ELSE IF Truthy(r.val) THEN r
    ELSE IF RECOVER_NULL # <<>> THEN Lit(RECOVER_NULL[1], r.cache)
    ELSE Raise("ParameterNullOrNotSet", r.cache)

\* a render_var that writes what it rendered to _cache whatever the settings
AlwaysCached(r, var_name, use_cache) ==
    IF r.err # "none" THEN r ELSE Ok(r.val, DictSet(r.cache, var_name, r.val))

\* the end of render_var: the rendered value is written to _cache and returned
Cached(r, var_name, use_cache) ==
    IF r.err # "none" THEN r
    ELSE IF use_cache THEN Ok(r.val, DictSet(r.cache, var_name, r.val))
    ELSE r

\* a render_template without its except clauses
Unhandled(r, value) == r

\* the except clause of render_template: the raw value stands for a template
\* the expander rejects
RawOnError(r, value) ==
    IF r.err \in ExpandvarsException \cup {"InvalidTemplateVarNameError"}
    THEN Ok(value, r.cache)
    ELSE r

RECURSIVE expand(_, _, _)
RECURSIVE escape(_, _, _)
RECURSIVE expand_var(_, _, _)
RECURSIVE _expand_modifier_var(_, _, _)
RECURSIVE _expand_advanced(_, _, _, _, _)
RECURSIVE ApplyModifier(_, _, _, _, _)
RECURSIVE _expand_strict(_, _, _, _)
RECURSIVE _expand_offset(_, _, _, _)
RECURSIVE _expand_length(_, _, _, _, _)
RECURSIVE _expand_substitute(_, _, _, _)
RECURSIVE _expand_default(_, _, _, _, _, _)
RECURSIVE SetDefault(_, _, _, _, _)
RECURSIVE getenv(_, _, _, _, _)
RECURSIVE Indirect(_, _, _)
RECURSIVE environ_get(_, _, _)
RECURSIVE _get_item(_, _, _)
RECURSIVE render_var(_, _, _)
RECURSIVE render_var_process(_, _, _)
RECURSIVE render_template(_, _, _)
RECURSIVE ThenExpand(_, _, _)

\* r + self.expand(rest): rest is expanded once r is there
ThenExpand(ctx, r, rest) == Add(r, expand(ctx, rest, r.cache))

\* ExpandParser.expand
expand(ctx, vars_, cache) ==
    LET i == FirstOf(vars_, {var_symbol, ESCAPE_CHAR})
    IN IF i = 0 THEN Lit(vars_, cache)
       ELSE IF vars_[i] = var_symbol
       THEN Add(Lit(SubSeq(vars_, 1, i - 1), cache),
                expand_var(ctx, SubSeq(vars_, i + 1, Len(vars_)), cache))
       ELSE Add(Lit(SubSeq(vars_, 1, i - 1), cache),
                escape(ctx, SubSeq(vars_, i + 1, Len(vars_)), cache))

\* ExpandParser.escape
escape(ctx, vars_, cache) ==
    IF Len(vars_) = 0 THEN Raise("MissingExcapedChar", cache)
    ELSE IF Len(vars_) = 1 THEN Lit(<<vars_[1]>>, cache)
    ELSE IF vars_[1] = var_symbol
    THEN Add(Lit(<<vars_[1]>>, cache), expand(ctx, Tail(vars_), cache))
    ELSE IF vars_[1] = ESCAPE_CHAR /\ vars_[2] = var_symbol
    THEN Add(Lit(<<ESCAPE_CHAR>>, cache), expand(ctx, Tail(vars_), cache))
    ELSE IF vars_[1] = ESCAPE_CHAR /\ vars_[2] = ESCAPE_CHAR
    THEN Add(Lit(<<ESCAPE_CHAR>>, cache), escape(ctx, PySliceFrom(vars_, 2), cache))
    ELSE Add(Lit(<<ESCAPE_CHAR, vars_[1]>>, cache), expand(ctx, Tail(vars_), cache))

\* ExpandParser.expand_var
expand_var(ctx, vars_, cache) ==
    IF Len(vars_) = 0 THEN Lit(<<var_symbol>>, cache)
    ELSE IF vars_[1] = ESCAPE_CHAR
    THEN Add(Lit(<<var_symbol>>, cache), escape(ctx, Tail(vars_), cache))
    ELSE IF vars_[1] = var_symbol
    THEN LET times == 2 + SymbolRun(Tail(vars_))
         IN IF times = 2
            THEN Add(Lit(feat_pid, cache), expand(ctx, Tail(vars_), cache))
            ELSE Add(Lit(Repeat(var_symbol, times), cache),
                     expand(ctx, PySliceFrom(vars_, times - 1), cache))
    ELSE IF vars_[1] = "{" THEN _expand_modifier_var(ctx, Tail(vars_), cache)
    ELSE LET n == NameLen(vars_)
         IN IF n = Len(vars_) THEN getenv(ctx, SubSeq(vars_, 1, n), FALSE, <<>>, cache)
            ELSE IF n > 0
            THEN ThenExpand(ctx, StrOf(getenv(ctx, SubSeq(vars_, 1, n), FALSE, <<>>, cache)),
                            PySliceFrom(vars_, n))
            ELSE Add(Lit(<<var_symbol>>, cache), expand(ctx, vars_, cache))

\* ExpandParser._expand_modifier_var
_expand_modifier_var(ctx, vars_, cache) ==
    IF Len(vars_) <= 1 THEN Raise("BadSubstitution", cache)
    ELSE LET indirect == vars_[1] = "!"
             v == IF indirect THEN Tail(vars_) ELSE vars_
             n == NameLen(v)
             buff == SubSeq(v, 1, n)
         IN IF n = Len(v) THEN Raise("MissingClosingBrace", cache)
            ELSE IF v[n + 1] = "}"
            THEN ThenExpand(ctx, StrOf(getenv(ctx, buff, indirect, <<>>, cache)),
                            PySliceFrom(v, n + 1))
            ELSE _expand_advanced(ctx, buff,
                                  PySliceFrom(v, IF v[n + 1] = ":" THEN n + 1 ELSE n),
                                  indirect, cache)

\* ExpandParser._expand_advanced: the modifier up to its closing brace is
\* expanded first
_expand_advanced(ctx, var, vars_, indirect, cache) ==
    LET end == ModifierEnd(vars_, 1, 1)
    IN IF Len(vars_) = 0 \/ end = 0 THEN Raise("MissingClosingBrace", cache)
       ELSE ApplyModifier(ctx, var, expand(ctx, SubSeq(vars_, 1, end - 1), cache),
                          PySliceFrom(vars_, end), indirect)

\* the end of _expand_advanced: m is the expanded modifier, rest what follows
\* the closing brace
ApplyModifier(ctx, var, m, rest, indirect) ==
    IF m.err # "none" THEN m
    ELSE IF m.val.v = <<>> THEN Raise("BadSubstitution", m.cache)
    ELSE ThenExpand(ctx,
            CASE m.val.v[1] = "-" ->
                     _expand_default(ctx, var, Tail(m.val.v), FALSE, indirect, m.cache)
              [] m.val.v[1] = "=" ->
                     _expand_default(ctx, var, Tail(m.val.v), TRUE, indirect, m.cache)
              [] m.val.v[1] = "+" ->
                     _expand_substitute(ctx, var, Tail(m.val.v), m.cache)
              [] m.val.v[1] = "?" ->
                     _expand_strict(ctx, var, Tail(m.val.v), m.cache)
              [] OTHER -> _expand_offset(ctx, var, m.val.v, m.cache),
            rest)

\* ExpandParser._expand_strict: environ.get(var, "") gives LazyQueryDict.get
\* one argument more than it takes
_expand_strict(ctx, var, modifier, cache) ==
    IF ctx.lazy THEN Raise("TypeError", cache)
    ELSE StrictOr(environ_get(ctx, StrVal(var), cache))

\* ExpandParser._expand_offset
_expand_offset(ctx, var, modifier, cache) ==
    LET i == FirstOf(modifier, {":"})
        offset_str == IF i > 0 THEN SubSeq(modifier, 1, i - 1) ELSE strip(modifier)
        offset == IF offset_str = <<>> \/ ~_isint(offset_str) THEN 0 ELSE ToInt(offset_str)
    IN IF i > 0 THEN _expand_length(ctx, var, PySliceFrom(modifier, i), offset, cache)
       ELSE SliceFrom(StrOf(getenv(ctx, var, FALSE, <<>>, cache)), offset)

\* ExpandParser._expand_length
_expand_length(ctx, var, modifier, offset, cache) ==
    LET length_str == strip(modifier)
        none == length_str = <<>> \/ ~_isint(length_str)
        width == IF none THEN 0 ELSE offset + ToInt(length_str)
    IN IF length_str # <<>> /\ ~_isint(length_str)
              /\ \E j \in 1..Len(length_str) : ~_valid_char(length_str[j])
       THEN Raise("OperandExpected", cache)
       ELSE IF ~none /\ ToInt(length_str) < 0
       THEN Raise("NegativeSubStringExpression", cache)
       ELSE Slice(StrOf(getenv(ctx, var, FALSE, <<>>, cache)), offset, width)

\* ExpandParser._expand_substitute
_expand_substitute(ctx, var, modifier, cache) ==
    Substitute(environ_get(ctx, StrVal(var), cache), modifier)

\* ExpandParser._expand_default
_expand_default(ctx, var, modifier, set_, indirect, cache) ==
    IF ~set_ THEN getenv(ctx, var, indirect, <<modifier>>, cache)
    ELSE SetDefault(ctx, var, modifier, indirect, environ_get(ctx, StrVal(var), cache))

\* the set_ branch of _expand_default, r being environ.get(var): a dict is
\* updated with the default, the lazy lookup has no update()
SetDefault(ctx, var, modifier, indirect, r) ==
    IF r.err # "none" THEN r
    ELSE IF Truthy(r.val) THEN getenv(ctx, var, indirect, <<modifier>>, r.cache)
    ELSE IF ctx.lazy THEN Raise("AttributeError", r.cache)
    ELSE getenv(ctx, var, indirect, <<modifier>>,
                DictSet(r.cache, JoinChars(var), StrVal(modifier)))

\* ExpandParser.getenv with nounset=False; default is <<>> for None
getenv(ctx, var, indirect, default, cache) ==
    OrDefault(Indirect(ctx, environ_get(ctx, StrVal(var), cache), indirect), default)

\* the indirect lookup of getenv: the value found, unless None, is looked up
\* as a name
Indirect(ctx, first, indirect) ==
    IF first.err = "none" /\ indirect /\ first.val # NoneVal
    THEN environ_get(ctx, first.val, first.cache)
    ELSE first

\* environ.get(key): LazyQueryDict.get, or dict.get with None for a missing
\* key
environ_get(ctx, key, cache) ==
    IF ctx.lazy THEN _get_item(ctx, key, cache)
    ELSE IF DictHas(cache, KeyName(key)) THEN Ok(DictGet(cache, KeyName(key)), cache)
    ELSE Ok(NoneVal, cache)

\* LazyQueryDict._get_item, reached through get(); a debug tuple is unpacked
\* to its value
_get_item(ctx, key, cache) ==
    IF ~Truthy(key) THEN Raise("InvalidTemplateVarNameError", cache)
    ELSE IF ~is_not_circular(ctx.chain)
    THEN Raise("TemplateRenderingCircularValueError", cache)
    ELSE render_var(ctx, KeyName(key), cache)

\* Renderer.render_var of var_name, called from the frame ctx (ctx.chain is
\* <<>> for a top-level call)
render_var(ctx, var_name, cache) ==
    IF var_name = "" THEN Raise("AssertionError", cache)
    ELSE IF ctx.settings.cache /\ DictHas(cache, var_name)
    THEN Ok(DictGet(cache, var_name), cache)
    ELSE Cached(render_var_process([ctx EXCEPT !.chain = <<var_name>> \o ctx.chain],
                                   var_name, cache),
                var_name, ctx.settings.cache)

\* Renderer.render_var_process
render_var_process(ctx, var_name, cache) ==
    LET g == get_value(ctx.srcs, ctx.scps, ctx.layers, var_name, ctx.scope)
        oue == ctx.settings.on_undefined_error
        value == IF g.err = "none" THEN g.val[1] ELSE oue.val
    IN IF g.err # "none" /\ (g.err # "UndefinedVarError" \/ oue.kind = "Exception")
       THEN Raise(g.err, cache)
       ELSE IF ~ctx.settings.template THEN Ok(value, cache)
       ELSE IF ~is_template(value) THEN Ok(value, cache)
       ELSE render_template(ctx, value, cache)

\* ExpandVarsInstance.render_template
render_template(ctx, value, cache) == RawOnError(expand(ctx, value.v, cache), value)

\* the body of the loop of render_values: _out[var_name] = render_var(...)
Collect(acc, var_name, r) ==
    IF r.err # "none" THEN [err |-> r.err, val |-> acc.val, cache |-> r.cache]
    ELSE [err |-> "none", val |-> DictSet(acc.val, var_name, r.val), cache |-> r.cache]

RECURSIVE render_values_loop(_, _, _)
render_values_loop(ctx, names, acc) ==
    IF names = <<>> \/ acc.err # "none" THEN acc
    ELSE render_values_loop(ctx, Tail(names),
                            Collect(acc, Head(names), render_var(ctx, Head(names), acc.cache)))

\* Renderer.render_values, order being the order in which the names of
\* get_var_names (a list made of a set) come out; val is the dict _out
render_values(ctx, order, cache) ==
    render_values_loop(ctx, order, [err |-> "none", val |-> <<>>, cache |-> cache])

\* the orders a list made of the set S can have
OrdersOf(S) ==
    {s \in [1..Cardinality(S) -> S] :
        \A i \in 1..Cardinality(S), j \in 1..Cardinality(S) : i # j => s[i] # s[j]}

DictVal(d) == [t |-> "dict", v |-> d]

IntVal(chars) == [t |-> "int", v |-> chars]

\* the settings render_var builds for a top-level call without settings=
DefaultSettings(debug, cache, template) ==
    RenderingSettings(Hook("callable", StrVal(<<>>)), RaiseHook,
                      Hook("callable", StrVal(<<>>)), template, debug, cache)

\* ExpandParser(environ=a dict, nounset=False, feat_pid="$$"): the frame of an
\* expander that reads no store
ExpandParser ==
    [Ctx(<<>>, <<>>, <<>>, NoScope, DefaultSettings(FALSE, FALSE, TRUE), <<>>)
        EXCEPT !.lazy = FALSE]

\* Renderer.__init__: an unknown scope is the KeyError of get_ordered_sources
Renderer(srcs, scps, scope) ==
    LET r == get_ordered_sources(srcs, scps, scope)
    IN [err |-> r.err, obj |-> [scope |-> scope, _cache |-> <<>>, sources |-> r.val]]

\* RenderableStoreManager.get_renderer: heap is the sequence of the Renderer
\* objects made so far, rcache maps a scope name to a place in it. The
\* default scope (None) is never read back from the cache.
get_renderer(rcache, heap, srcs, scps, scope_name) ==
    LET made == Renderer(srcs, scps, scope_name)
    IN IF scope_name # NoScope /\ scope_name # "" /\ DictHas(rcache, scope_name)
       THEN [err |-> "none", val |-> DictGet(rcache, scope_name),
             heap |-> heap, rcache |-> rcache]
       ELSE IF made.err # "none"
       THEN [err |-> made.err, val |-> 0, heap |-> heap, rcache |-> rcache]
       ELSE [err |-> "none", val |-> Len(heap) + 1,
             heap |-> Append(heap, made.obj),
             rcache |-> DictSet(rcache, scope_name, Len(heap) + 1)]

(***************************************************************************)
(* Bounds.                                                                 *)
(***************************************************************************)
\* calls made on one store in the store specification
MaxCalls == 4

\* references in the scope definitions of one set_scopes call
MaxTotalRefs == 3

\* the sequences of at most two elements of S
UpToTwo(S) == {<<>>} \cup {<<x>> : x \in S} \cup {<<x, y>> : x \in S, y \in S}

\* the lists add_sources is given
SourceLists == UpToTwo(AllSources)

\* the reference lists a scope is defined with
RefLists(names) == UpToTwo({Str(n) : n \in names})

RECURSIVE DictOf(_, _)
\* the dict literal a caller writes for the function f, keys in the order of
\* the sequence order
DictOf(f, order) ==
    IF order = <<>> THEN <<>>
    ELSE (IF Head(order) \in DOMAIN f THEN <<E(Head(order), f[Head(order)])>> ELSE <<>>)
         \o DictOf(f, Tail(order))

\* scope definitions of the store specification: the scope S1 over the source
\* names
StoreScopeMaps == {<<E("S1", l)>> : l \in RefLists(SourceNames)}

(***************************************************************************)
(* The store as a state machine: one action per call.                      *)
(***************************************************************************)
Ret(op, form, err, why) == [op |-> op, form |-> form, err |-> err, why |-> why]

Init ==
    /\ sources = <<>>
    /\ scopes = <<>>
    /\ layered_store = <<>>
    /\ declared = <<>>
    /\ calls = 0
    /\ ret = Ret("init", "", "none", "")
    /\ renderers = <<>>
    /\ renderer_cache = <<>>
    /\ returned = <<>>
    /\ text = <<>>
    /\ environ = <<>>
    /\ frames = <<>>

AddSource(arg, force) ==
    LET r == add_sources_single(sources, arg, force) IN
    /\ sources' = r.sources
    /\ ret' = Ret("add_sources", "single", r.err, "")
    /\ calls' = calls + 1
    /\ UNCHANGED <<scopes, layered_store, declared>>
    /\ UNCHANGED rendering
    /\ UNCHANGED expander

AddSourcesList(args, force) ==
    LET r == add_sources_list(sources, args, force) IN
    /\ sources' = r.sources
    /\ ret' = Ret("add_sources", "list", r.err, "")
    /\ calls' = calls + 1
    /\ UNCHANGED <<scopes, layered_store, declared>>
    /\ UNCHANGED rendering
    /\ UNCHANGED expander

SetScopesMap(mapping) ==
    LET r == set_scopes_map(scopes, sources, mapping) IN
    /\ scopes' = r.scopes
    /\ declared' = IF r.err = "none" THEN DictUpdate(declared, mapping) ELSE declared
    /\ ret' = Ret("set_scopes", "map", r.err, r.why)
    /\ calls' = calls + 1
    /\ UNCHANGED <<sources, layered_store>>
    /\ UNCHANGED rendering
    /\ UNCHANGED expander

SetScopesPair(name, scope) ==
    LET r == set_scopes_pair(scopes, sources, name, scope) IN
    /\ scopes' = r.scopes
    /\ declared' = IF r.err = "none" THEN DictSet(declared, name, scope) ELSE declared
    /\ ret' = Ret("set_scopes", "pair", r.err, r.why)
    /\ calls' = calls + 1
    /\ UNCHANGED <<sources, layered_store>>
    /\ UNCHANGED rendering
    /\ UNCHANGED expander

\* a set_layer that empties the _cache of every renderer
SetLayerInvalidating(source_name, dataset) ==
    LET r == set_layer(sources, layered_store, source_name, dataset) IN
    /\ layered_store' = r.layered_store
    /\ ret' = Ret("set_layer", "", r.err, "")
    /\ calls' = calls + 1
    /\ renderers' = [i \in 1..Len(renderers) |-> [renderers[i] EXCEPT !._cache = <<>>]]
    /\ UNCHANGED <<sources, scopes, declared, renderer_cache, returned>>
    /\ UNCHANGED expander

SetLayer(source_name, dataset) ==
    LET r == set_layer(sources, layered_store, source_name, dataset) IN
    /\ layered_store' = r.layered_store
    /\ ret' = Ret("set_layer", "", r.err, "")
    /\ calls' = calls + 1
    /\ UNCHANGED <<sources, scopes, declared>>
    /\ UNCHANGED rendering
    /\ UNCHANGED expander

Next ==
    /\ calls < MaxCalls
    /\ \/ \E arg \in AllSources, force \in BOOLEAN : AddSource(arg, force)
       \/ \E args \in SourceLists : AddSourcesList(args, FALSE)
       \/ \E mapping \in StoreScopeMaps : SetScopesMap(mapping)
       \/ \E name \in {"S1"}, scope \in RefLists(SourceNames) : SetScopesPair(name, scope)
       \/ \E source_name \in SourceNames, dataset \in Datasets : SetLayer(source_name, dataset)

Spec == Init /\ [][Next]_vars

(***************************************************************************)
(* The scope specification: the calls that define scopes, on a store whose *)
(* sources a (level 500) and b (level 100) are registered one by one.      *)
(***************************************************************************)
\* Scope definitions of the scope specification: every definition of S1, of
\* S2 or of both with at most MaxTotalRefs references to a, b, S1 or S2, and
\* the definitions of three scopes below: a chain, a cycle through the three,
\* and one scope reached along two paths.
R(names) == [i \in 1..Len(names) |-> Str(names[i])]

NestedScopeMaps ==
    { <<E("S1", R(<<"S2", "b">>)), E("S2", R(<<"S3">>)), E("S3", R(<<"a">>))>>,
      <<E("S1", R(<<"b", "S2">>)), E("S2", R(<<"S3", "b">>)), E("S3", R(<<"a">>))>>,
      <<E("S1", R(<<"S2">>)), E("S2", R(<<"S3">>)), E("S3", R(<<"S1">>))>>,
      <<E("S1", R(<<"a">>)), E("S2", R(<<"S1">>)), E("S3", R(<<"S1", "S2">>))>>,
      <<E("S3", R(<<"b">>))>> }

RECURSIVE TotalRefs(_)
TotalRefs(mapping) ==
    IF mapping = <<>> THEN 0 ELSE Len(Head(mapping).v) + TotalRefs(Tail(mapping))

ScopeMaps ==
    {m \in {DictOf(f, ScopeOrder) :
              f \in UNION {[D -> RefLists(SourceNames \cup {"S1", "S2"})] :
                              D \in SUBSET {"S1", "S2"}}} :
        TotalRefs(m) <= MaxTotalRefs}
    \cup NestedScopeMaps

ScopeSpecSources == {Source("a", <<500>>), Source("b", <<100>>)}

NextScopes ==
    /\ calls < MaxCalls
    /\ \/ \E arg \in ScopeSpecSources : AddSource(arg, FALSE)
       \/ \E mapping \in ScopeMaps : SetScopesMap(mapping)
       \/ \E name \in {"S1"}, scope \in RefLists(SourceNames \cup {"S1", "S2"}) :
              SetScopesPair(name, scope)

SpecScopes == Init /\ [][NextScopes]_vars

(***************************************************************************)
(* The rendering specification: a RenderableStoreManager whose sources a   *)
(* (level 500) and b (level 100), scopes S1 = [a, b] and S2 = [a] and      *)
(* layers are in place, on which renderers are taken, variables rendered   *)
(* and layers replaced.                                                    *)
(***************************************************************************)
MaxRenderCalls == 3

RenderKeys == Keys \cup {"w"}

RenderScopes == {NoScope, "S1", "S2", "S9"}

Tpl(s) == StrVal(s)

\* the payloads of the layers of a and of b
RenderStores ==
    { [a |-> <<E("x", Tpl(<<"$","{","y","}","-","$","{","z","}">>)),
                E("y", Tpl(<<"Y","$","{","z","}">>))>>,
       b |-> <<E("y", Tpl(<<"b">>)), E("z", Tpl(<<"Z">>))>>],
      [a |-> <<E("x", Tpl(<<"$","{","y","}">>)),
                E("y", Tpl(<<"a","$","{","x","}">>))>>,
       b |-> <<E("z", Tpl(<<"$","{","z","}">>))>>],
      [a |-> <<E("x", Tpl(<<"v","$","{","y","}">>)), E("y", IntVal(<<"0">>))>>,
       b |-> <<E("y", Tpl(<<"Y">>))>>],
      [a |-> <<E("x", Tpl(<<"$","{","y","}","$","{","y","}">>)),
                E("z", Tpl(<<"$","{","x","}","!">>))>>,
       b |-> <<E("y", Tpl(<<"$","{","z","}">>)), E("z", Tpl(<<"q">>))>>],
      [a |-> <<E("x", Tpl(<<"$","{","y","}","$","{","z">>)), E("y", Tpl(<<"Y">>)),
                E("z", Tpl(<<"$","{","y",":","0",":","-","1","}">>))>>,
       b |-> <<E("y", Tpl(<<"$","{","z","}","\\">>)), E("z", Tpl(<<"$","{","}">>))>>],
      [a |-> <<E("x", Tpl(<<"$","$","y","$","{","y","}">>)), E("y", Tpl(<<"Y">>)),
                E("z", Tpl(<<"$","{","y","}","$","$","$","$","x","-","$","$","$">>))>>,
       b |-> <<E("x", Tpl(<<"$","{","y","}","$","{","y",":","0",":","-","}">>)),
                E("y", Tpl(<<"$","$","$","z">>)),
                E("z", Tpl(<<"\\","$","{","x","}">>))>>] }

RenderDatasets ==
    { <<E("z", Tpl(<<"$","{","x","}">>))>>,
      <<E("y", Tpl(<<"n">>))>> }

RenderSettings ==
    { DefaultSettings(FALSE, TRUE, TRUE),
      DefaultSettings(FALSE, TRUE, FALSE),
      DefaultSettings(FALSE, FALSE, TRUE),
      DefaultSettings(TRUE, TRUE, TRUE),
      [DefaultSettings(FALSE, TRUE, TRUE) EXCEPT
          !.on_undefined_error = Hook("value", Tpl(<<"U">>))] }

InitRender ==
    /\ \E st \in RenderStores :
         LET s1 == add_sources_single(<<>>, Source("a", <<500>>), FALSE).sources
             s2 == add_sources_single(s1, Source("b", <<100>>), FALSE).sources
             l1 == set_layer(s2, <<>>, "a", st.a).layered_store
             l2 == set_layer(s2, l1, "b", st.b).layered_store
             mp == <<E("S1", R(<<"a", "b">>)), E("S2", R(<<"a">>))>>
         IN /\ sources = s2
            /\ layered_store = l2
            /\ scopes = set_scopes_map(<<>>, s2, mp).scopes
            /\ declared = mp
    /\ calls = 0
    /\ ret = Ret("init", "", "none", "")
    /\ renderers = <<>>
    /\ renderer_cache = <<>>
    /\ returned = <<>>
    /\ text = <<>>
    /\ environ = <<>>
    /\ frames = <<>>

GetRenderer(scope_name) ==
    LET r == get_renderer(renderer_cache, renderers, sources, scopes, scope_name) IN
    /\ renderers' = r.heap
    /\ renderer_cache' = r.rcache
    /\ returned' = IF r.err = "none" THEN <<r.val>> ELSE <<>>
    /\ ret' = Ret("get_renderer", scope_name, r.err, "")
    /\ calls' = calls + 1
    /\ UNCHANGED <<store, declared>>
    /\ UNCHANGED expander

\* a render_var that writes the value it rendered to the layer of source a
RenderVarWriting(rd, var_name, settings) ==
    LET ctx == Ctx(sources, scopes, layered_store, renderers[rd].scope, settings, <<>>)
        r == render_var(ctx, var_name, renderers[rd]._cache)
    IN /\ renderers' = [renderers EXCEPT ![rd]._cache = r.cache]
       /\ returned' = IF r.err = "none" THEN <<r.val>> ELSE <<>>
       /\ ret' = Ret("render_var", var_name, r.err, "")
       /\ calls' = calls + 1
       /\ layered_store' =
             IF r.err = "none" /\ DictHas(layered_store, "a")
             THEN DictSet(layered_store, "a",
                          Layer(DictGet(layered_store, "a").source,
                                DictSet(DictGet(layered_store, "a").payload,
                                        var_name, r.val)))
             ELSE layered_store
       /\ UNCHANGED <<sources, scopes, declared, renderer_cache>>
       /\ UNCHANGED expander

RenderValues(rd, order, settings) ==
    LET ctx == Ctx(sources, scopes, layered_store, renderers[rd].scope, settings, <<>>)
        r == render_values(ctx, order, renderers[rd]._cache)
    IN /\ renderers' = [renderers EXCEPT ![rd]._cache = r.cache]
       /\ returned' = IF r.err = "none" THEN <<DictVal(r.val)>> ELSE <<>>
       /\ ret' = Ret("render_values", "", r.err, "")
       /\ calls' = calls + 1
       /\ UNCHANGED <<store, declared, renderer_cache>>
       /\ UNCHANGED expander

RenderVar(rd, var_name, settings) ==
    LET ctx == Ctx(sources, scopes, layered_store, renderers[rd].scope, settings, <<>>)
        r == render_var(ctx, var_name, renderers[rd]._cache)
    IN /\ renderers' = [renderers EXCEPT ![rd]._cache = r.cache]
       /\ returned' = IF r.err = "none" THEN <<r.val>> ELSE <<>>
       /\ ret' = Ret("render_var", var_name, r.err, "")
       /\ calls' = calls + 1
       /\ UNCHANGED <<store, declared, renderer_cache>>
       /\ UNCHANGED expander

NextRender ==
    /\ calls < MaxRenderCalls
    /\ \/ \E scope_name \in RenderScopes : GetRenderer(scope_name)
       \/ \E rd \in 1..Len(renderers), var_name \in RenderKeys, settings \in RenderSettings :
              RenderVar(rd, var_name, settings)
       \/ \E source_name \in SourceNames, dataset \in RenderDatasets :
              SetLayer(source_name, dataset)

SpecRender == InitRender /\ [][NextRender]_vars

(***************************************************************************)
(* The expander specification: one string and one mapping of names to      *)
(* values. The string is expanded by an ExpandParser whose environ is the  *)
(* mapping as a plain dict (SpecExpand), and rendered as the variable x of  *)
(* a store whose single layer holds the mapping (SpecValues).              *)
(***************************************************************************)
\* calls made in the expander specification
MaxExpandCalls == 2

\* the length of the strings drawn from EscapeAlphabet
MaxEscapeLen == 4

\* the strings of at most n characters of S
StringsUpTo(S, n) == UNION {[1..k -> S] : k \in 0..n}

EscapeAlphabet == {ESCAPE_CHAR, var_symbol, "y", "-"}

\* ${y<op><arg>} between a prefix and a suffix
ModifierTexts ==
    {pre \o <<"$", "{", "y">> \o op \o arg \o <<"}">> \o post :
        pre \in {<<>>, <<"a">>}, post \in {<<>>, <<"b">>},
        op \in {<<"-">>, <<":", "-">>, <<"=">>, <<":", "=">>,
                <<"?">>, <<":", "?">>, <<"+">>, <<":", "+">>},
        arg \in {<<>>, <<"d">>, <<"$", "{", "z", "}">>}}

Offsets == {<<"0">>, <<"1">>, <<"2">>, <<"5">>}

Lengths ==
    {<<"0">>, <<"1">>, <<"3">>, <<"9">>, <<"-", "1">>, <<"-">>, <<"x">>,
     <<"x", " ", "y">>, <<"1", ".", "5">>, <<" ", "2", " ">>}

\* ${y:O} and ${y:O:L}
SubstringTexts ==
    {<<"$", "{", "y", ":">> \o o \o <<"}">> : o \in Offsets}
    \cup {<<"$", "{", "y", ":">> \o o \o <<":">> \o l \o <<"}">> :
            o \in Offsets, l \in Lengths}

\* $y and ${y} at the start, in the middle and at the end of a string
ReferenceTexts ==
    {pre \o ref \o post :
        pre \in {<<>>, <<"a">>}, post \in {<<>>, <<"-", "b">>},
        ref \in {<<"$", "y">>, <<"$", "{", "y", "}">>}}
    \cup {<<"$", "{", "y", "}", "$", "{", "y", "}">>}

Texts ==
    StringsUpTo(EscapeAlphabet, MaxEscapeLen) \cup ModifierTexts
        \cup SubstringTexts \cup ReferenceTexts

BoolVal(chars) == [t |-> "bool", v |-> chars]

\* the states of the name y: unset, empty, a string, an integer, a boolean
Environs ==
    {<<E("z", StrVal(<<"Z">>))>>} \cup
    {<<E("y", v), E("z", StrVal(<<"Z">>))>> :
        v \in {StrVal(<<>>), StrVal(<<"a", "b", "c", "d">>),
               IntVal(<<"0">>), IntVal(<<"5">>),
               BoolVal(<<"T", "r", "u", "e">>),
               BoolVal(<<"F", "a", "l", "s", "e">>)}}

ExpandSettings ==
    { DefaultSettings(FALSE, TRUE, TRUE),
      DefaultSettings(FALSE, FALSE, TRUE),
      [DefaultSettings(FALSE, TRUE, TRUE) EXCEPT
          !.on_undefined_error = Hook("value", StrVal(<<>>))] }

InitExpand ==
    /\ text \in Texts
    /\ environ \in Environs
    /\ sources = add_sources_single(<<>>, Source("a", <<500>>), FALSE).sources
    /\ layered_store =
          set_layer(sources, <<>>, "a",
                    DictSet(environ, "x", StrVal(text))).layered_store
    /\ scopes = <<>>
    /\ declared = <<>>
    /\ calls = 0
    /\ ret = Ret("init", "", "none", "")
    /\ renderers = <<>>
    /\ renderer_cache = <<>>
    /\ returned = <<>>
    /\ frames = <<>>

\* the end of the call: r is what expand gave
Expanding(r) ==
    /\ environ' = r.cache
    /\ returned' = IF r.err = "none" THEN <<r.val>> ELSE <<>>
    /\ ret' = Ret("expand", "", r.err, "")
    /\ calls' = calls + 1
    /\ UNCHANGED <<store, declared, renderers, renderer_cache, text, frames>>

\* ExpandParser(environ=environ, nounset=False, feat_pid="$$").expand(text)
Expand == \E r \in {expand(ExpandParser, text, environ)} : Expanding(r)

NextExpand ==
    /\ calls < MaxExpandCalls
    /\ \/ Expand
       \/ GetRenderer(NoScope)

SpecExpand == InitExpand /\ [][NextExpand]_vars

\* the same stores, rendered one variable at a time and all at once
NextValues ==
    /\ calls < MaxExpandCalls
    /\ \/ GetRenderer(NoScope)
       \/ \E rd \in 1..Len(renderers), settings \in ExpandSettings :
              RenderVar(rd, "x", settings)
       \/ \E rd \in 1..Len(renderers), settings \in ExpandSettings :
              \E order \in OrdersOf(get_var_names(sources, scopes, layered_store,
                                                  renderers[rd].scope)) :
                  RenderValues(rd, order, settings)

SpecValues == InitExpand /\ [][NextValues]_vars

(***************************************************************************)
(* The frames specification: one render_var call taken a step at a time.   *)
(* frames holds the QueryCtl of the innermost render_var call first, then  *)
(* its parents. A frame is made when render_var is entered (pc =           *)
(* "render_var"), reads the cache and the store, expands its value         *)
(* (pc = "expand": buff is what expand has emitted, vars_ what it has yet  *)
(* to read) and returns (pc = "return"). The values are strings made of    *)
(* plain text and of the references $NAME and ${NAME}.                     *)
(***************************************************************************)
MaxFrameCalls == 2

MaxFrames == 6

Frame(rd, key_ctl, settings) ==
    [renderer |-> rd, key_ctl |-> key_ctl, settings |-> settings,
     pc |-> "render_var", value |-> StrVal(<<>>), save |-> FALSE,
     vars_ |-> <<>>, buff |-> <<>>]

\* key_ctl of a frame, then of its parents
KeyStack(fs) == [i \in 1..Len(fs) |-> fs[i].key_ctl]

\* the reference that v, which starts with var_symbol, starts with
RefBraced(v) == Len(v) >= 2 /\ v[2] = "{"

RefName(v) ==
    IF RefBraced(v) THEN SubSeq(v, 3, 2 + NameLen(SubSeq(v, 3, Len(v))))
    ELSE SubSeq(v, 2, 1 + NameLen(Tail(v)))

RefLen(v) == IF RefBraced(v) THEN Len(RefName(v)) + 3 ELSE Len(RefName(v)) + 1

IsRef(v) ==
    /\ v # <<>> /\ v[1] = var_symbol
    /\ RefName(v) # <<>>
    /\ RefBraced(v) => (Len(v) >= RefLen(v) /\ v[RefLen(v)] = "}")

\* what getenv hands to expand for the value a lookup returned
RefText(val) == IF Truthy(val) THEN PyStr(val).v ELSE <<>>

FrameTexts ==
    { <<"Y">>, <<"$", "y">>, <<"$", "{", "y", "}">>, <<"a", "$", "{", "x", "}">>,
      <<"$", "{", "y", "}", "-", "$", "z">>, <<"$", "{", "z", "}", "$", "{", "z", "}">>,
      <<"$", "q">> }

\* x holds any of the texts; y is absent, plain, or refers to z or to x; z is
\* absent, plain, or refers to y
FrameStores ==
    { <<E("x", StrVal(tx))>> \o ys \o zs :
        tx \in FrameTexts,
        ys \in {<<>>} \cup {<<E("y", StrVal(ty))>> :
                                ty \in {<<"Y">>, <<"$", "z">>, <<"a", "$", "{", "x", "}">>}},
        zs \in {<<>>} \cup {<<E("z", StrVal(tz))>> :
                                tz \in {<<"Z">>, <<"$", "{", "y", "}">>}} }

FrameSettings ==
    { DefaultSettings(FALSE, TRUE, TRUE),
      [DefaultSettings(FALSE, TRUE, TRUE) EXCEPT
          !.on_undefined_error = Hook("value", StrVal(<<"U">>))],
      [DefaultSettings(FALSE, TRUE, TRUE) EXCEPT
          !.on_undefined_error = Hook("value", StrVal(<<"$", "{", "q", "}">>))],
      [DefaultSettings(FALSE, FALSE, TRUE) EXCEPT
          !.on_undefined_error = Hook("value", StrVal(<<"$", "x">>))] }

InitFrames ==
    /\ \E st \in FrameStores :
         /\ sources = add_sources_single(<<>>, Source("a", <<500>>), FALSE).sources
         /\ layered_store = set_layer(sources, <<>>, "a", st).layered_store
    /\ scopes = <<>>
    /\ declared = <<>>
    /\ calls = 0
    /\ ret = Ret("init", "", "none", "")
    /\ renderers = <<>>
    /\ renderer_cache = <<>>
    /\ returned = <<>>
    /\ text = <<>>
    /\ environ = <<>>
    /\ frames = <<>>

\* the exception err leaves every frame of the call
Raised(err) ==
    /\ frames' = <<>>
    /\ ret' = [ret EXCEPT !.err = err]
    /\ UNCHANGED <<store, declared, calls, renderers, renderer_cache, returned,
                   text, environ>>

\* the frames of the call become fs
Running(fs) ==
    /\ frames' = fs
    /\ UNCHANGED <<store, declared, calls, ret, renderers, renderer_cache, returned,
                   text, environ>>

\* a top-level render_var(var_name, **settings) is entered: its QueryCtl has
\* no parent
CallRenderVar(rd, var_name, settings) ==
    /\ frames = <<>>
    /\ frames' = <<Frame(rd, var_name, settings)>>
    /\ ret' = Ret("render_var", var_name, "none", "")
    /\ returned' = <<>>
    /\ calls' = calls + 1
    /\ UNCHANGED <<store, declared, renderers, renderer_cache, text, environ>>

\* render_var_process of the frame f, g being what get_value gave
ProcessValue(f, g, value) ==
    IF g.err # "none" /\ (g.err # "UndefinedVarError"
                          \/ f.settings.on_undefined_error.kind = "Exception")
    THEN Raised(g.err)
    ELSE IF ~f.settings.template \/ ~is_template(value)
    THEN Running(<<[f EXCEPT !.pc = "return", !.value = value,
                             !.save = f.settings.cache]>> \o Tail(frames))
    ELSE Running(<<[f EXCEPT !.pc = "expand", !.value = value,
                             !.vars_ = value.v]>> \o Tail(frames))

ProcessFrame(f, g) ==
    ProcessValue(f, g, IF g.err = "none" THEN g.val[1]
                       ELSE f.settings.on_undefined_error.val)

\* render_var from its cache check to the start of render_template
Process ==
    /\ frames # <<>> /\ Head(frames).pc = "render_var"
    /\ IF Head(frames).settings.cache
          /\ DictHas(renderers[Head(frames).renderer]._cache, Head(frames).key_ctl)
       THEN Running(<<[Head(frames) EXCEPT
                         !.pc = "return",
                         !.value = DictGet(renderers[Head(frames).renderer]._cache,
                                           Head(frames).key_ctl)]>>
                    \o Tail(frames))
       ELSE ProcessFrame(Head(frames),
                         get_value(sources, scopes, layered_store, Head(frames).key_ctl,
                                   renderers[Head(frames).renderer].scope))

\* expand reaches a reference: LazyQueryDict._get_item asks the frame's
\* QueryCtl for a cycle and enters render_var with the frame as parent
GetItem ==
    /\ frames # <<>> /\ Head(frames).pc = "expand"
    /\ LET f == Head(frames)
           i == FirstOf(f.vars_, {var_symbol, ESCAPE_CHAR})
           at == [f EXCEPT !.buff = @ \o SubSeq(f.vars_, 1, i - 1),
                           !.vars_ = SubSeq(f.vars_, i, Len(f.vars_))]
       IN /\ i > 0
          /\ IsRef(at.vars_)
          /\ IF ~is_not_circular(KeyStack(frames))
             THEN Raised("TemplateRenderingCircularValueError")
             ELSE /\ Len(frames) < MaxFrames
                  /\ Running(<<Frame(f.renderer, JoinChars(RefName(at.vars_)), f.settings),
                               at>> \o Tail(frames))

\* expand reaches the end of the string: render_template returns
Expanded ==
    /\ frames # <<>> /\ Head(frames).pc = "expand"
    /\ LET f == Head(frames) IN
       /\ FirstOf(f.vars_, {var_symbol, ESCAPE_CHAR}) = 0
       /\ Running(<<[f EXCEPT !.pc = "return", !.value = StrVal(f.buff \o f.vars_),
                              !.save = f.settings.cache,
                              !.buff = <<>>, !.vars_ = <<>>]>> \o Tail(frames))

\* render_var saves the value in the cache and returns it, to the caller or
\* to the expand of the parent frame
Return ==
    /\ frames # <<>> /\ Head(frames).pc = "return"
    /\ LET f == Head(frames) IN
       /\ renderers' = IF f.save
                       THEN [renderers EXCEPT ![f.renderer]._cache =
                                DictSet(@, f.key_ctl, f.value)]
                       ELSE renderers
       /\ IF Len(frames) = 1
          THEN /\ frames' = <<>>
               /\ returned' = <<f.value>>
          ELSE /\ frames' = <<[frames[2] EXCEPT
                                 !.buff = @ \o RefText(f.value),
                                 !.vars_ = SubSeq(@, RefLen(@) + 1, Len(@))]>>
                            \o Tail(Tail(frames))
               /\ returned' = returned
       /\ UNCHANGED <<store, declared, calls, ret, renderer_cache, text, environ>>

\* the steps of the call that runs
StepFrames ==
    \/ Process
    \/ GetItem
    \/ Expanded
    \/ Return

NextFrames ==
    \/ /\ calls < MaxFrameCalls
       /\ frames = <<>>
       /\ renderers = <<>>
       /\ GetRenderer(NoScope)
    \/ /\ calls < MaxFrameCalls
       /\ \E rd \in 1..Len(renderers), var_name \in {"x", "q"},
             settings \in FrameSettings :
              CallRenderVar(rd, var_name, settings)
    \/ StepFrames

\* render_var runs in the caller's thread: a call that can take a step takes it
SpecFrames == InitFrames /\ [][NextFrames]_vars /\ WF_vars(StepFrames)

(***************************************************************************)
(* Claims about the store.                                                 *)
(***************************************************************************)
DefinedScopes == DictKeys(scopes) \cup {NoScope}

\* the places, in get_ordered_layers(scope) order, of the layers that hold key
LayersWith(scope, key) ==
    LET ls == get_ordered_layers(sources, scopes, layered_store, scope).val
    IN {i \in 1..Len(ls) : DictHas(ls[i].payload, key)}

SetMin(S) == CHOOSE m \in S : \A n \in S : m <= n

\* C1: for every scope (or the default scope) and key, get_value returns the
\* key's value in the first layer of get_ordered_layers(scope) that holds the
\* key, and raises UndefinedVar exactly when no layer of that list holds it.
C1_GetValueFirstLayer ==
    \A scope \in DefinedScopes, key \in Keys :
        LET ls == get_ordered_layers(sources, scopes, layered_store, scope).val
            hits == LayersWith(scope, key)
            r == get_value(sources, scopes, layered_store, key, scope)
        IN IF hits = {}
           THEN r.err = "UndefinedVarError"
           ELSE r.err = "none" /\ r.val = <<DictGet(ls[SetMin(hits)].payload, key)>>

\* C1's case: a scope in which two layers hold x with different values, the
\* scope order differing from the level order, and y held only by a layer
\* outside the scope.
C1_Witness ==
    /\ DictHas(scopes, "S1")
    /\ get_source_names(sources, scopes, "S1").val = <<"b", "a">>
    /\ get_source_names(sources, scopes, NoScope).val = <<"a", "b">>
    /\ Cardinality(LayersWith("S1", "x")) = 2
    /\ get_value(sources, scopes, layered_store, "x", "S1").val
           # get_value(sources, scopes, layered_store, "x", NoScope).val

\* C1's other case: a key held only by a layer of a source outside the scope.
C1_WitnessOutside ==
    /\ DictHas(scopes, "S1")
    /\ LayersWith("S1", "y") = {}
    /\ LayersWith(NoScope, "y") # {}
    /\ get_value(sources, scopes, layered_store, "y", "S1").err = "UndefinedVarError"

\* the level a source is sorted by, an unspecified level counting as 500
LevelOr500(src) == IF src.level = <<>> THEN 500 ELSE src.level[1]

\* C3: get_ordered_sources() holds every registered source exactly once, in
\* ascending level order (no level counts as 500), sources of equal level in
\* registration order.
C3_DefaultOrderStableByLevel ==
    LET reg == DictValues(sources)
        r == get_ordered_sources(sources, scopes, NoScope)
        pos(src) == CHOOSE p \in 1..Len(r.val) : r.val[p] = src
    IN /\ r.err = "none"
       /\ Len(r.val) = Len(reg)
       /\ \A i \in 1..Len(reg) : Cardinality({p \in 1..Len(r.val) : r.val[p] = reg[i]}) = 1
       /\ \A i \in 1..Len(reg), j \in 1..Len(reg) :
              i < j => IF LevelOr500(reg[i]) <= LevelOr500(reg[j])
                       THEN pos(reg[i]) < pos(reg[j])
                       ELSE pos(reg[i]) > pos(reg[j])

\* C3's case: a source without level registered before a source of level 500
\* keeps its place before it, and a source of level 100 registered last comes
\* first.
C3_Witness ==
    \E i \in 1..Len(sources), j \in 1..Len(sources) :
        /\ i < j
        /\ sources[i].v.level = <<>> /\ sources[j].v.level = <<500>>
        /\ get_source_names(sources, scopes, NoScope).val
               = <<sources[i].v.name, sources[j].v.name>>

C3_WitnessReorder ==
    /\ Len(sources) = 2
    /\ sources[1].v.level = <<>> /\ sources[2].v.level = <<100>>
    /\ get_source_names(sources, scopes, NoScope).val
           = <<sources[2].v.name, sources[1].v.name>>

\* C7: add_sources of a name that is already registered, without force, fails
\* with AlreadyExistingSource and leaves the registered sources unchanged, in
\* the single-Source form and in the list form.
C7_DuplicateSourceRejected ==
    [][ /\ \A arg \in AllSources :
               (AddSource(arg, FALSE) /\ DictHas(sources, arg.name))
                   => (ret'.err = "AlreadyExistingSourceError" /\ sources' = sources)
        /\ \A args \in SourceLists :
               (AddSourcesList(args, FALSE)
                    /\ \E i \in 1..Len(args) : DictHas(sources, args[i].name))
                   => (ret'.err = "AlreadyExistingSourceError" /\ sources' = sources)
      ]_vars

\* every layer sits under the name of its own source, once, and that name is
\* registered
LayersWellFormed ==
    /\ \A i \in 1..Len(layered_store), j \in 1..Len(layered_store) :
           layered_store[i].k = layered_store[j].k => i = j
    /\ \A i \in 1..Len(layered_store) :
           /\ layered_store[i].v.source.name = layered_store[i].k
           /\ DictHas(sources, layered_store[i].k)

\* C8: at most one layer per source, carrying the payload of the latest
\* set_layer for that source; set_layer on an unregistered name fails and
\* changes no layer; every layer's source name is registered.
C8_OneLayerPerSource ==
    [][ /\ LayersWellFormed'
        /\ \A source_name \in SourceNames, dataset \in Datasets :
               SetLayer(source_name, dataset) =>
                   IF DictHas(sources, source_name)
                   THEN /\ ret'.err = "none"
                        /\ DictHas(layered_store', source_name)
                        /\ DictGet(layered_store', source_name).payload = dataset
                        /\ \A n \in DictKeys(layered_store) \ {source_name} :
                               /\ DictHas(layered_store', n)
                               /\ DictGet(layered_store', n) = DictGet(layered_store, n)
                        /\ DictKeys(layered_store') = DictKeys(layered_store) \cup {source_name}
                   ELSE /\ ret'.err = "VarMgrAppError"
                        /\ layered_store' = layered_store
        /\ (ret'.op # "set_layer") => layered_store' = layered_store
      ]_vars

\* C8's case: a second set_layer for a source has replaced its payload, and a
\* set_layer on an unregistered name has failed.
C8_Witness ==
    /\ Len(layered_store) = 1
    /\ layered_store[1].v.payload = <<E("x", StrVal(<<"1">>))>>
    /\ calls = 4
    /\ ret.op = "set_layer" /\ ret.err = "none"

C8_WitnessUnknown ==
    /\ ret.op = "set_layer" /\ ret.err = "VarMgrAppError"
    /\ layered_store # <<>>

(***************************************************************************)
(* Claims about scope definitions.  declared holds, per scope, the         *)
(* reference list of the latest successful definition of that scope.       *)
(***************************************************************************)
RECURSIVE DeclaredOrder(_, _, _, _)
\* a reference list read left to right: a source name gives its registered
\* Source, a scope name gives that scope's own list, in place
DeclaredOrder(decl, srcs, items, depth) ==
    IF items = <<>> THEN <<>>
    ELSE LET n == Head(items).name
             here == IF DictHas(srcs, n) THEN <<DictGet(srcs, n)>>
                     ELSE IF DictHas(decl, n) /\ depth > 0
                     THEN DeclaredOrder(decl, srcs, DictGet(decl, n), depth - 1)
                     ELSE <<>>
         IN here \o DeclaredOrder(decl, srcs, Tail(items), depth)

\* the scopes a scope's list names
ScopeRefs(decl, srcs, S) ==
    {DictGet(decl, S)[i].name : i \in 1..Len(DictGet(decl, S))}
        \cap (DictKeys(decl) \ DictKeys(srcs))

RECURSIVE ReachedScopes(_, _, _, _)
ReachedScopes(decl, srcs, front, n) ==
    IF n = 0 THEN front
    ELSE ReachedScopes(decl, srcs,
                       front \cup UNION {ScopeRefs(decl, srcs, T) : T \in front}, n - 1)

\* every reference names a registered source or a declared scope, and no scope
\* reaches itself
ValidAcyclic(decl, srcs) ==
    /\ \A i \in 1..Len(decl) : \A j \in 1..Len(decl[i].v) :
           decl[i].v[j].name \in DictKeys(srcs) \cup DictKeys(decl)
    /\ \A S \in DictKeys(decl) :
           S \notin ReachedScopes(decl, srcs, ScopeRefs(decl, srcs, S), Len(decl))

\* C2: after a successful set_scopes, every scope's get_ordered_sources is its
\* declared reference list read left to right, source names replaced by their
\* registered Source and scope names by that scope's resolved list, and holds
\* registered sources only, whatever their levels.
C2_ScopeOrderIsDeclaredOrder ==
    (ret.op = "set_scopes" /\ ret.err = "none") =>
        \A S \in DictKeys(scopes) :
            LET r == get_ordered_sources(sources, scopes, S)
            IN /\ r.err = "none"
               /\ DictHas(declared, S)
               /\ r.val = DeclaredOrder(declared, sources, DictGet(declared, S), Len(declared))
               /\ \A i \in 1..Len(r.val) : r.val[i] \in Range(DictValues(sources))

\* C4: a set_scopes call that fails raises the application error and leaves
\* scopes, sources and layers as they were.
C4_FailedSetScopesChangesNothing ==
    [][ (ret'.op = "set_scopes" /\ ret'.err # "none" /\ calls' = calls + 1)
            => (ret'.err = "VarMgrAppError" /\ UNCHANGED store) ]_vars

\* C5: after a successful set_scopes, a further set_scopes(M2) whose merged
\* definitions are valid and acyclic succeeds, and the scopes M2 does not
\* redefine keep their resolved lists.
C5_SecondSetScopesMerges ==
    [][ \A mapping \in ScopeMaps :
            (/\ SetScopesMap(mapping)
             /\ declared # <<>>
             /\ ValidAcyclic(DictUpdate(declared, mapping), sources))
            => /\ ret'.err = "none"
               /\ \A S \in DictKeys(scopes) \ DictKeys(mapping) :
                      /\ DictHas(scopes', S)
                      /\ DictGet(scopes', S) = DictGet(scopes, S) ]_vars

\* C6: set_scopes(name, list) has the effect of set_scopes({name: list}).
C6_PairFormIsMapForm ==
    [][ \A name \in ScopeNames, scope \in RefLists(SourceNames \cup ScopeNames) :
            SetScopesPair(name, scope)
            => LET r == set_scopes_map(scopes, sources, <<E(name, scope)>>)
               IN /\ ret'.err = r.err
                  /\ scopes' = r.scopes ]_vars

(***************************************************************************)
(* Claims about rendering, under SpecRender. The references of a value are *)
(* read off its text here, apart from the expander: a reference is "${",   *)
(* a name and "}".                                                         *)
(***************************************************************************)
\* the name of the reference that starts at place i of chars, <<>> if none
RefAt(chars, i) ==
    IF i + 1 <= Len(chars) /\ chars[i] = "$" /\ chars[i + 1] = "{"
    THEN LET rest == SubSeq(chars, i + 2, Len(chars))
             n == NameLen(rest)
         IN IF n > 0 /\ n < Len(rest) /\ rest[n + 1] = "}" THEN SubSeq(rest, 1, n) ELSE <<>>
    ELSE <<>>

RawOf(scope, k) == get_value(sources, scopes, layered_store, k, scope)

\* the keys the raw value of k refers to in scope
RefsOf(scope, k) ==
    LET g == RawOf(scope, k)
    IN IF g.err = "none" /\ g.val[1].t = "str"
       THEN {JoinChars(RefAt(g.val[1].v, i)) : i \in 1..Len(g.val[1].v)} \ {""}
       ELSE {}

RECURSIVE ReachFrom(_, _)
ReachFrom(scope, S) ==
    LET N == S \cup UNION {RefsOf(scope, j) : j \in S}
    IN IF N = S THEN S ELSE ReachFrom(scope, N)

\* the keys reached from k by one reference or more
ReachedKeys(scope, k) == ReachFrom(scope, RefsOf(scope, k))

CycleReachable(scope, k) ==
    \E j \in {k} \cup ReachedKeys(scope, k) : j \in ReachedKeys(scope, j)

AllDefined(scope, k) ==
    \A j \in {k} \cup ReachedKeys(scope, k) : RawOf(scope, j).err = "none"

\* render_var(k) on a renderer of scope whose _cache is empty
FreshRender(scope, k) ==
    render_var(Ctx(sources, scopes, layered_store, scope,
                   DefaultSettings(FALSE, TRUE, TRUE), <<>>), k, <<>>)

\* chars from place i on, every reference replaced by the text of its
\* render_var
RECURSIVE Substituted(_, _, _)
Substituted(scope, chars, i) ==
    IF i > Len(chars) THEN <<>>
    ELSE IF RefAt(chars, i) # <<>>
    THEN PyStr(FreshRender(scope, JoinChars(RefAt(chars, i))).val).v
            \o Substituted(scope, chars, i + Len(RefAt(chars, i)) + 3)
    ELSE <<chars[i]>> \o Substituted(scope, chars, i + 1)

TemplatingSettings ==
    LET Hooks == {RaiseHook, Hook("callable", StrVal(<<>>)), Hook("value", StrVal(<<"U">>))}
    IN {RenderingSettings(ote, oue, oute, TRUE, debug, cache) :
            ote \in Hooks, oue \in Hooks, oute \in Hooks,
            debug \in BOOLEAN, cache \in BOOLEAN}

\* C9: on a renderer whose _cache is empty, for a key k whose references are
\* all defined in the renderer's scope and acyclic, render_var(k) returns the
\* raw value of k with every ${K} replaced by the text of render_var(K), K
\* resolved in the same scope.
C9_RenderIsSubstitution ==
    \A rd \in 1..Len(renderers), k \in RenderKeys :
        LET scope == renderers[rd].scope
            raw == RawOf(scope, k)
            r == FreshRender(scope, k)
        IN (renderers[rd]._cache = <<>> /\ AllDefined(scope, k) /\ ~CycleReachable(scope, k))
           => /\ r.err = "none"
              /\ r.val = IF raw.val[1].t = "str"
                         THEN StrVal(Substituted(scope, raw.val[1].v, 1))
                         ELSE raw.val[1]

\* C10: in every renderer state and under every settings with templating
\* enabled, render_var(k) raises TemplateRenderingCircularValueError when the
\* references reachable from k in the renderer's scope contain a cycle.
C10_CycleAlwaysRaises ==
    \A rd \in 1..Len(renderers), k \in RenderKeys, settings \in TemplatingSettings :
        CycleReachable(renderers[rd].scope, k)
        => render_var(Ctx(sources, scopes, layered_store, renderers[rd].scope,
                          settings, <<>>), k, renderers[rd]._cache).err
               = "TemplateRenderingCircularValueError"

\* the context of a top-level call on renderer rd
TopCtx(rd, settings) ==
    Ctx(sources, scopes, layered_store, renderers[rd].scope, settings, <<>>)

DefaultRender == DefaultSettings(FALSE, TRUE, TRUE)

WithUndefined(hook) == [DefaultRender EXCEPT !.on_undefined_error = hook]

\* C11: for a key k absent from every layer of the renderer's scope,
\* render_var(k) with the default on_undefined_error raises UndefinedVarError
\* in every state of the renderer, and with a callable or a literal it
\* returns the callable's result or the literal.
C11_UndefinedFollowsHook ==
    \A rd \in 1..Len(renderers), k \in RenderKeys :
        RawOf(renderers[rd].scope, k).err = "UndefinedVarError"
        => /\ render_var(TopCtx(rd, DefaultRender), k, renderers[rd]._cache).err
                  = "UndefinedVarError"
           /\ \A hook \in {Hook("callable", StrVal(<<"U">>)), Hook("value", StrVal(<<"U">>))} :
                  render_var(TopCtx(rd, WithUndefined(hook)), k, <<>>)
                      = Ok(hook.val, <<E(k, hook.val)>>)

\* C12: for every key k defined in the renderer's scope,
\* render_var(k, template=False) returns get_value(k, scope), in every state
\* of the renderer.
C12_TemplateOffIsRaw ==
    \A rd \in 1..Len(renderers), k \in RenderKeys :
        RawOf(renderers[rd].scope, k).err = "none"
        => LET r == render_var(TopCtx(rd, DefaultSettings(FALSE, TRUE, FALSE)), k,
                               renderers[rd]._cache)
           IN r.err = "none" /\ r.val = RawOf(renderers[rd].scope, k).val[1]

\* the layers as set up, before any set_layer of the rendering specification
InitialLayers ==
    {set_layer(sources, set_layer(sources, <<>>, "a", st.a).layered_store,
               "b", st.b).layered_store : st \in RenderStores}

Unmutated == layered_store \in InitialLayers

\* C13: on a store that is not mutated, render_var(k) with caching on
\* returns the same on every call and the same as render_var(k, cache=False),
\* and every entry of a renderer's _cache is the uncached render of its key.
C13_CacheIsUncachedRender ==
    Unmutated =>
    \A rd \in 1..Len(renderers) :
        /\ \A k \in RenderKeys :
              LET c == render_var(TopCtx(rd, DefaultRender), k, renderers[rd]._cache)
                  again == render_var(TopCtx(rd, DefaultRender), k, c.cache)
                  u == render_var(TopCtx(rd, DefaultSettings(FALSE, FALSE, TRUE)), k,
                                  renderers[rd]._cache)
              IN /\ c.err = again.err /\ c.val = again.val
                 /\ c.err = u.err /\ c.val = u.val
        /\ \A i \in 1..Len(renderers[rd]._cache) :
              render_var(TopCtx(rd, DefaultSettings(FALSE, FALSE, TRUE)),
                         renderers[rd]._cache[i].k, renderers[rd]._cache)
                  = Ok(renderers[rd]._cache[i].v, renderers[rd]._cache)

\* the context of a top-level call on renderer rd after the step
TopCtxAfter(rd, settings) ==
    Ctx(sources', scopes', layered_store', renderers'[rd].scope, settings, <<>>)

\* C14: a set_layer leaves every renderer's _cache as it was: after it,
\* render_var(k) with caching on returns the entry cached before it, and
\* render_var(k, cache=False) returns what a renderer with an empty _cache
\* computes from the new layers.
C14_SetLayerKeepsCache ==
    [][\A source_name \in SourceNames, dataset \in RenderDatasets :
          SetLayer(source_name, dataset)
          => /\ Len(renderers') = Len(renderers)
             /\ \A rd \in 1..Len(renderers) : \A i \in 1..Len(renderers[rd]._cache) :
                   LET k == renderers[rd]._cache[i].k
                       old == renderers[rd]._cache[i].v
                       cached == render_var(TopCtxAfter(rd, DefaultRender), k,
                                            renderers'[rd]._cache)
                       uncached == render_var(TopCtxAfter(rd, DefaultSettings(FALSE, FALSE, TRUE)),
                                              k, renderers'[rd]._cache)
                       fresh == render_var(TopCtxAfter(rd, DefaultSettings(FALSE, FALSE, TRUE)),
                                           k, <<>>)
                   IN /\ cached.err = "none" /\ cached.val = old
                      /\ uncached.err = fresh.err /\ uncached.val = fresh.val]_vars

\* a set_layer has changed what a cached key renders to: the cached call
\* returns the old result, the uncached call a different one
C14_Witness ==
    /\ ret.op = "set_layer"
    /\ \E rd \in 1..Len(renderers) : \E i \in 1..Len(renderers[rd]._cache) :
          LET k == renderers[rd]._cache[i].k
              cached == render_var(TopCtx(rd, DefaultRender), k, renderers[rd]._cache)
              uncached == render_var(TopCtx(rd, DefaultSettings(FALSE, FALSE, TRUE)), k,
                                     renderers[rd]._cache)
          IN /\ cached.err = "none" /\ cached.val = renderers[rd]._cache[i].v
             /\ uncached.err = "none" /\ uncached.val # cached.val

\* the expander reports a parse error on the raw value of k
ParseError(rd, k) ==
    LET g == RawOf(renderers[rd].scope, k)
    IN /\ g.err = "none" /\ is_template(g.val[1])
       /\ expand([TopCtx(rd, DefaultRender) EXCEPT !.chain = <<k>>], g.val[1].v, <<>>).err
              \in ExpandvarsException

WithTemplating(hook) == [DefaultRender EXCEPT !.on_templating_error = hook]

\* C15: when the expander reports a parse error on the value of k, render_var(k)
\* raises with on_templating_error = Exception, returns the callable's result
\* with a callable and the literal with a literal.
C15_ParseErrorFollowsHook ==
    \A rd \in 1..Len(renderers), k \in RenderKeys :
        ParseError(rd, k)
        => /\ render_var(TopCtx(rd, WithTemplating(RaiseHook)), k, <<>>).err # "none"
           /\ \A hook \in {Hook("callable", StrVal(<<"E">>)), Hook("value", StrVal(<<"E">>))} :
                 LET r == render_var(TopCtx(rd, WithTemplating(hook)), k, <<>>)
                 IN r.err = "none" /\ r.val = hook.val

\* C16: under default settings, when the expander reports a parse error on
\* the string value of k, render_var(k) on a renderer with an empty _cache
\* raises nothing and returns the raw string, whatever part of it had been
\* expanded before the error.
C16_ParseErrorReturnsRaw ==
    \A rd \in 1..Len(renderers), k \in RenderKeys :
        ParseError(rd, k)
        => /\ render_var(TopCtx(rd, DefaultRender), k, <<>>).err = "none"
           /\ render_var(TopCtx(rd, DefaultRender), k, <<>>).val
                 = RawOf(renderers[rd].scope, k).val[1]

\* render_var("x") has returned the raw "${y}${z" after ${y} had been
\* resolved and cached
C16_Witness ==
    /\ ret.op = "render_var" /\ ret.form = "x" /\ ret.err = "none"
    /\ \E rd \in 1..Len(renderers) :
          /\ ParseError(rd, "x")
          /\ returned = <<RawOf(renderers[rd].scope, "x").val[1]>>
          /\ returned[1].v = <<"$","{","y","}","$","{","z">>
          /\ DictHas(renderers[rd]._cache, "y")
          /\ DictGet(renderers[rd]._cache, "y") = StrVal(<<"Y">>)

WithHooks(oue, oute) ==
    [DefaultRender EXCEPT !.on_undefined_error = oue, !.on_undefined_template_error = oute]

\* the expansion of the value of k asks for a key that no layer of the scope
\* holds
RequestsUndefined(rd, k) ==
    /\ RawOf(renderers[rd].scope, k).err = "none"
    /\ \E j \in RefsOf(renderers[rd].scope, k) :
          RawOf(renderers[rd].scope, j).err = "UndefinedVarError"
    /\ render_var(TopCtx(rd, DefaultRender), k, <<>>).err = "UndefinedVarError"

\* C17: when the expansion of the value of k asks for a key absent from every
\* layer of the scope, on_undefined_template_error decides and
\* on_undefined_error does not: with Exception the error propagates, with a
\* callable or a literal render_var returns.
C17_TemplateUndefinedFollowsHook ==
    \A rd \in 1..Len(renderers), k \in RenderKeys :
        RequestsUndefined(rd, k)
        => /\ render_var(TopCtx(rd, WithHooks(Hook("value", StrVal(<<"U">>)), RaiseHook)),
                         k, <<>>).err = "UndefinedVarError"
           /\ \A hook \in {Hook("callable", StrVal(<<"T">>)), Hook("value", StrVal(<<"T">>))} :
                 render_var(TopCtx(rd, WithHooks(RaiseHook, hook)), k, <<>>).err = "none"

\* C18: a get_renderer call made with a scope argument that an earlier call
\* was made with returns the Renderer that call returned, for each named
\* scope and for the default scope.
C18_SameRendererPerScope ==
    [][\A scope_name \in RenderScopes :
          (/\ ret'.op = "get_renderer" /\ ret'.form = scope_name /\ calls' = calls + 1
           /\ DictHas(renderer_cache, scope_name))
          => (ret'.err = "none" /\ returned' = <<DictGet(renderer_cache, scope_name)>>)]_vars

\* val expanded as a template over the store and the scope of renderer rd,
\* by a frame of its own
Reexpand(rd, val) ==
    IF is_template(val)
    THEN render_template([TopCtx(rd, DefaultRender) EXCEPT !.chain = <<"again">>], val, <<>>)
    ELSE Ok(val, <<>>)

\* C19 as stated: for every key k whose render succeeds with a string r,
\* expanding r again as a template over the same store and scope yields r.
C19_RenderIdempotent ==
    \A rd \in 1..Len(renderers), k \in RenderKeys :
        LET r == FreshRender(renderers[rd].scope, k)
        IN (r.err = "none" /\ r.val.t = "str")
           => (Reexpand(rd, r.val).err = "none" /\ Reexpand(rd, r.val).val = r.val)

\* every "$" of chars stands in a run of two or more, and chars has no "\"
OnlyRuns(chars) ==
    /\ ESCAPE_CHAR \notin Range(chars)
    /\ \A i \in 1..Len(chars) :
          chars[i] = var_symbol
          => \/ i > 1 /\ chars[i - 1] = var_symbol
             \/ i < Len(chars) /\ chars[i + 1] = var_symbol

\* C19 amended: for every key k whose render succeeds with a string r in
\* which no "\" occurs and every "$" stands in a run of two or more,
\* expanding r again as a template over the same store and scope yields r.
C19_IdempotentOnRuns ==
    \A rd \in 1..Len(renderers), k \in RenderKeys :
        LET r == FreshRender(renderers[rd].scope, k)
        IN (r.err = "none" /\ r.val.t = "str" /\ OnlyRuns(r.val.v))
           => (Reexpand(rd, r.val).err = "none" /\ Reexpand(rd, r.val).val = r.val)

\* render_var has returned a string that holds a run of "$" and a resolved
\* reference, and expanding it again yields it
C19_Witness ==
    /\ ret.op = "render_var" /\ ret.err = "none" /\ returned # <<>>
    /\ returned[1].t = "str" /\ OnlyRuns(returned[1].v)
    /\ returned[1].v = <<"$","$","y","Y">>
    /\ \E rd \in 1..Len(renderers) :
          /\ FreshRender(renderers[rd].scope, ret.form).val = returned[1]
          /\ Reexpand(rd, returned[1]).val = returned[1]

\* the number of consecutive "$" of chars from place i on
RECURSIVE RunAt(_, _)
RunAt(chars, i) ==
    IF i <= Len(chars) /\ chars[i] = "$" THEN 1 + RunAt(chars, i + 1) ELSE 0

\* chars from place i on as the run rule gives it: a run of n >= 2 "$" is
\* kept as n "$", the text after it is kept up to the next "$", and a ${K}
\* outside a run is replaced by the text of render_var(K)
RECURSIVE RunsKept(_, _, _)
RunsKept(scope, chars, i) ==
    IF i > Len(chars) THEN <<>>
    ELSE IF RunAt(chars, i) >= 2
    THEN SubSeq(chars, i, i + RunAt(chars, i) - 1)
            \o RunsKept(scope, chars, i + RunAt(chars, i))
    ELSE IF RefAt(chars, i) # <<>>
    THEN PyStr(FreshRender(scope, JoinChars(RefAt(chars, i))).val).v
            \o RunsKept(scope, chars, i + Len(RefAt(chars, i)) + 3)
    ELSE <<chars[i]>> \o RunsKept(scope, chars, i + 1)

\* chars holds a run of two "$" or more, no "\", and every "$" outside a run
\* opens a ${K} whose K renders to a non-empty string in scope
HasRuns(scope, chars) ==
    /\ ESCAPE_CHAR \notin Range(chars)
    /\ \E i \in 1..Len(chars) : RunAt(chars, i) >= 2
    /\ \A i \in 1..Len(chars) :
          (/\ chars[i] = "$"
           /\ RunAt(chars, i) = 1
           /\ ~(i > 1 /\ chars[i - 1] = "$"))
          => /\ RefAt(chars, i) # <<>>
             /\ FreshRender(scope, JoinChars(RefAt(chars, i))).err = "none"
             /\ FreshRender(scope, JoinChars(RefAt(chars, i))).val.t = "str"
             /\ FreshRender(scope, JoinChars(RefAt(chars, i))).val.v # <<>>

\* C20: on a renderer whose _cache is empty, render_var(k) of a string value
\* holding runs of n >= 2 consecutive "$" returns the value with every run
\* emitted as exactly n "$", the identifier after a run emitted literally
\* and not looked up, and every ${K} outside the runs expanded.
C20_DollarRunsLiteral ==
    \A rd \in 1..Len(renderers), k \in RenderKeys :
        LET scope == renderers[rd].scope
            raw == RawOf(scope, k)
        IN (raw.err = "none" /\ raw.val[1].t = "str" /\ HasRuns(scope, raw.val[1].v))
           => /\ FreshRender(scope, k).err = "none"
              /\ FreshRender(scope, k).val = StrVal(RunsKept(scope, raw.val[1].v, 1))

\* render_var has returned "Y$$$$x-$$$" for the value "${y}$$$$x-$$$": the
\* reference is expanded, the runs of four and three "$" are kept and x is
\* not looked up
C20_Witness ==
    /\ ret.op = "render_var" /\ ret.err = "none" /\ returned # <<>>
    /\ returned[1] = StrVal(<<"Y","$","$","$","$","x","-","$","$","$">>)
    /\ \E rd \in 1..Len(renderers) :
          LET raw == RawOf(renderers[rd].scope, ret.form)
          IN /\ raw.err = "none"
             /\ raw.val[1] = StrVal(<<"$","{","y","}","$","$","$","$","x","-","$","$","$">>)
             /\ HasRuns(renderers[rd].scope, raw.val[1].v)
             /\ RawOf(renderers[rd].scope, "x").err = "none"

(***************************************************************************)
(* Claims about scope cycles, under SpecScopes.                            *)
(***************************************************************************)
\* C27: a first set_scopes(M) whose definitions name registered sources and
\* declared scopes only and hold no cycle succeeds, also when a scope is
\* reached along two paths or listed twice; the scope-cycle error is raised
\* only for definitions in which a scope reaches itself.
C27_CycleErrorOnlyOnCycle ==
    [][ \A mapping \in ScopeMaps :
            (SetScopesMap(mapping) /\ scopes = <<>> /\ declared = <<>>)
            => /\ ValidAcyclic(mapping, sources) => ret'.err = "none"
               /\ ret'.why = "recursive"
                      => \E S \in DictKeys(mapping) :
                            S \in ReachedScopes(mapping, sources,
                                                ScopeRefs(mapping, sources, S),
                                                Len(mapping)) ]_vars

(***************************************************************************)
(* Claims about the expander, under SpecExpand and SpecValues.             *)
(***************************************************************************)
\* chars from place i on with its escapes read left to right: "\" and "$"
\* give "$", two "\" give one "\", "\" and any other character c give "\" and
\* c, a character outside an escape gives itself
RECURSIVE EscapesRead(_, _)
EscapesRead(chars, i) ==
    IF i > Len(chars) THEN <<>>
    ELSE IF chars[i] = "\\" /\ i < Len(chars)
    THEN (IF chars[i + 1] \in {"$", "\\"} THEN <<chars[i + 1]>>
          ELSE <<"\\", chars[i + 1]>>) \o EscapesRead(chars, i + 2)
    ELSE <<chars[i]>> \o EscapesRead(chars, i + 1)

\* read left to right, chars has an escape, every "$" of chars is the second
\* character of an escape and no "\" is left alone at the end
RECURSIVE OnlyEscapes(_, _)
OnlyEscapes(chars, i) ==
    IF i > Len(chars) THEN TRUE
    ELSE IF chars[i] = "\\" THEN i < Len(chars) /\ OnlyEscapes(chars, i + 2)
    ELSE chars[i] # "$" /\ OnlyEscapes(chars, i + 1)

\* the last call was expand(text) on the dict environ
HasExpanded == ret.op = "expand"

\* C21: for every string whose "$" are all escaped, the expander emits "\$" as
\* "$" without looking the following name up, "\\" as one "\" and "\c" as
\* "\c", wherever the escape stands in the string.
C21_EscapesEmitted ==
    (HasExpanded /\ OnlyEscapes(text, 1) /\ "\\" \in Range(text))
        => /\ ret.err = "none"
           /\ returned = <<StrVal(EscapesRead(text, 1))>>

\* the parts the strings of ModifierTexts are made of
Prefixes == {<<>>, <<"a">>}

Suffixes == {<<>>, <<"b">>}

Colons == {<<>>, <<":">>}

Args == {<<>>, <<"d">>, <<"$", "{", "z", "}">>}

\* pre ${y<op><arg>} post
Modifier(pre, op, arg, post) ==
    pre \o <<"$", "{", "y">> \o op \o arg \o <<"}">> \o post

\* the text a default stands for: the reference ${z} is the value of z
ArgText(arg) ==
    IF arg = <<"$", "{", "z", "}">> THEN DictGet(environ, "z").v ELSE arg

\* chars rendered as the value of x by a Renderer of the default scope whose
\* _cache is empty
RenderText(chars, settings) ==
    render_template(Ctx(sources, scopes, layered_store, NoScope, settings, <<"x">>),
                    StrVal(chars), <<>>)

\* the call with the result r returned val
Returns(r, val) == r.err = "none" /\ r.val = val

\* y is unset or the empty string in the dict d
UnsetOrEmpty(d) == ~DictHas(d, "y") \/ DictGet(d, "y") = StrVal(<<>>)

\* y is a non-empty string in the dict d
SetNonEmpty(d) ==
    DictHas(d, "y") /\ DictGet(d, "y").t = "str" /\ DictGet(d, "y").v # <<>>

\* C22: through the Renderer's lazy lookup ${y=arg} and ${y:=arg} render as
\* ${y-arg} does and raise no error, whatever the state of y; expanded over a
\* dict with y unset or empty they write the default to y and emit it, and
\* with y set and non-empty they emit y and leave the dict as it is.
C22_AssignDefault ==
    [][ \A pre \in Prefixes, colon \in Colons, arg \in Args, post \in Suffixes :
            text = Modifier(pre, colon \o <<"=">>, arg, post)
            => /\ \A settings \in ExpandSettings :
                     /\ RenderText(text, settings).err = "none"
                     /\ RenderText(text, settings)
                            = RenderText(Modifier(pre, <<"-">>, arg, post), settings)
               /\ (ret'.op = "expand" /\ calls' = calls + 1 /\ UnsetOrEmpty(environ))
                     => /\ ret'.err = "none"
                        /\ environ' = DictSet(environ, "y", StrVal(ArgText(arg)))
                        /\ returned' = <<StrVal(pre \o ArgText(arg) \o post)>>
               /\ (ret'.op = "expand" /\ calls' = calls + 1 /\ SetNonEmpty(environ))
                     => /\ ret'.err = "none"
                        /\ environ' = environ
                        /\ returned' = <<StrVal(pre \o DictGet(environ, "y").v \o post)>> ]_vars

\* the half of C22 about a dict: what the expander writes and emits for
\* ${y=arg} and ${y:=arg}
C22_MappingHalf ==
    [][ \A pre \in Prefixes, colon \in Colons, arg \in Args, post \in Suffixes :
            text = Modifier(pre, colon \o <<"=">>, arg, post)
            => /\ (ret'.op = "expand" /\ calls' = calls + 1 /\ UnsetOrEmpty(environ))
                     => /\ ret'.err = "none"
                        /\ environ' = DictSet(environ, "y", StrVal(ArgText(arg)))
                        /\ returned' = <<StrVal(pre \o ArgText(arg) \o post)>>
               /\ (ret'.op = "expand" /\ calls' = calls + 1 /\ SetNonEmpty(environ))
                     => /\ ret'.err = "none"
                        /\ environ' = environ
                        /\ returned' = <<StrVal(pre \o DictGet(environ, "y").v \o post)>> ]_vars

\* chars expanded by the expander of a Renderer of the default scope, within
\* the frame of x, before render_template handles what it raises
ExpandLazy(chars, settings) ==
    expand(Ctx(sources, scopes, layered_store, NoScope, settings, <<"x">>), chars, <<>>)

\* C23: rendered under the default settings by a Renderer, ${y?arg} and
\* ${y:?arg} expand to y when y is a non-empty string; when y is unset or
\* empty the expander fails with ParameterNullOrNotSet, which the parse-error
\* policy of the default settings turns into the raw value; the expander
\* raises no other error.
C23_StrictReference ==
    \A pre \in Prefixes, colon \in Colons, arg \in Args, post \in Suffixes :
        (renderers # <<>> /\ text = Modifier(pre, colon \o <<"?">>, arg, post))
        => /\ ExpandLazy(text, DefaultRender).err \in {"none", "ParameterNullOrNotSet"}
           /\ SetNonEmpty(environ)
                 => Returns(RenderText(text, DefaultRender),
                                StrVal(pre \o DictGet(environ, "y").v \o post))
           /\ UnsetOrEmpty(environ)
                 => /\ ExpandLazy(text, DefaultRender).err = "ParameterNullOrNotSet"
                    /\ Returns(RenderText(text, DefaultRender), StrVal(text))

\* C24: rendered by a Renderer, a reference to y, written $y or ${y}, at the
\* start, in the middle or at the end of the value, is replaced by the
\* textual form of y when y is an integer or a boolean, and nothing is
\* raised.
C24_ScalarReference ==
    \A pre \in Prefixes, post \in {<<>>, <<"-", "b">>},
       ref \in {<<"$", "y">>, <<"$", "{", "y", "}">>} :
        (/\ renderers # <<>>
         /\ text = pre \o ref \o post
         /\ DictHas(environ, "y") /\ DictGet(environ, "y").t \in {"int", "bool"})
        => Returns(RenderText(text, DefaultRender),
                       StrVal(pre \o DictGet(environ, "y").v \o post))

\* C25: rendered under the default settings by a Renderer, ${y-arg} and
\* ${y:-arg} expand to the expanded arg when y is unset or empty, and to y
\* when y is a non-empty string.
C25_DefaultReference ==
    \A pre \in Prefixes, colon \in Colons, arg \in Args, post \in Suffixes :
        (renderers # <<>> /\ text = Modifier(pre, colon \o <<"-">>, arg, post))
        => /\ UnsetOrEmpty(environ)
                 => Returns(RenderText(text, DefaultRender),
                                StrVal(pre \o ArgText(arg) \o post))
           /\ SetNonEmpty(environ)
                 => Returns(RenderText(text, DefaultRender),
                                StrVal(pre \o DictGet(environ, "y").v \o post))

\* C25 for a y that some layer of the scope holds: empty, or a non-empty
\* string
C25_DefinedHalf ==
    \A pre \in Prefixes, colon \in Colons, arg \in Args, post \in Suffixes :
        (/\ renderers # <<>> /\ DictHas(environ, "y")
         /\ text = Modifier(pre, colon \o <<"-">>, arg, post))
        => /\ UnsetOrEmpty(environ)
                 => Returns(RenderText(text, DefaultRender),
                                StrVal(pre \o ArgText(arg) \o post))
           /\ SetNonEmpty(environ)
                 => Returns(RenderText(text, DefaultRender),
                                StrVal(pre \o DictGet(environ, "y").v \o post))

\* the number a string of Offsets or of WholeLengths writes
NumberOf(chars) ==
    CASE chars = <<"0">> -> 0 [] chars = <<"1">> -> 1 [] chars = <<"2">> -> 2
      [] chars = <<"3">> -> 3 [] chars = <<"5">> -> 5 [] chars = <<"9">> -> 9

\* the lengths that are integers L >= 0
WholeLengths == {<<"0">>, <<"1">>, <<"3">>, <<"9">>}

\* the lengths that are neither blank, an integer nor an identifier
BadLengths == {<<"-">>, <<"x", " ", "y">>, <<"1", ".", "5">>}

\* the at most n characters of v from index o (counted from 0) on
Chars(v, o, n) ==
    IF o >= Len(v) \/ n = 0 THEN <<>>
    ELSE SubSeq(v, o + 1, IF o + n > Len(v) THEN Len(v) ELSE o + n)

\* y is a string in the dict d, or unset
StringOrUnset(d) == DictHas(d, "y") => DictGet(d, "y").t = "str"

\* the value of y in the dict d, the empty string when y is unset
ValueOf(d) == IF DictHas(d, "y") THEN DictGet(d, "y").v ELSE <<>>

\* C26: expanded over a dict in which y is a string v or unset, ${y:O:L} with
\* integers O >= 0 and L >= 0 gives the at most L characters of v from index
\* O on, ${y:O} gives v from index O to its end (the empty string when y is
\* unset), a negative L fails with NegativeSubStringExpression, and an L that
\* is neither blank, an integer nor an identifier fails with OperandExpected.
C26_Substring ==
    (HasExpanded /\ StringOrUnset(environ)) =>
        \A o \in Offsets :
            /\ text = <<"$", "{", "y", ":">> \o o \o <<"}">>
                  => /\ ret.err = "none"
                     /\ returned = <<StrVal(Chars(ValueOf(environ), NumberOf(o),
                                                  Len(ValueOf(environ))))>>
            /\ \A l \in Lengths :
                  text = <<"$", "{", "y", ":">> \o o \o <<":">> \o l \o <<"}">>
                  => /\ l \in WholeLengths
                        => /\ ret.err = "none"
                           /\ returned = <<StrVal(Chars(ValueOf(environ), NumberOf(o),
                                                        NumberOf(l)))>>
                     /\ l = <<"-", "1">> => ret.err = "NegativeSubStringExpression"
                     /\ l \in BadLengths => ret.err = "OperandExpected"

\* expand has returned "b" for ${y:1:1} over a dict in which y is "abcd"
C26_Witness ==
    /\ HasExpanded /\ ret.err = "none"
    /\ text = <<"$", "{", "y", ":", "1", ":", "1", "}">>
    /\ DictHas(environ, "y") /\ DictGet(environ, "y") = StrVal(<<"a", "b", "c", "d">>)
    /\ returned = <<StrVal(<<"b">>)>>

(***************************************************************************)
(* Claims about the cache and the store during rendering.                  *)
(***************************************************************************)
\* the settings of a call with cache=False
UncachedSettings ==
    { DefaultSettings(FALSE, FALSE, TRUE),
      DefaultSettings(FALSE, FALSE, FALSE),
      [DefaultSettings(FALSE, FALSE, TRUE) EXCEPT
          !.on_undefined_error = Hook("value", StrVal(<<"U">>))] }

\* C30: in every renderer state, render_var(k, cache=False) leaves the
\* renderer's _cache as it was, in the top-level call and in the nested
\* renders, and returns or raises what it does on an empty _cache.
C30_UncachedCallSkipsCache ==
    \A rd \in 1..Len(renderers), k \in RenderKeys, settings \in UncachedSettings :
        /\ render_var(TopCtx(rd, settings), k, renderers[rd]._cache).cache
              = renderers[rd]._cache
        /\ render_var(TopCtx(rd, settings), k, renderers[rd]._cache).err
              = render_var(TopCtx(rd, settings), k, <<>>).err
        /\ render_var(TopCtx(rd, settings), k, renderers[rd]._cache).val
              = render_var(TopCtx(rd, settings), k, <<>>).val

\* render_var(k, cache=False) has returned a value that differs from the
\* entry the _cache holds for k and for a key k refers to, and the entries
\* are still there
C30_Witness ==
    /\ ret.op = "render_var" /\ ret.err = "none" /\ returned # <<>>
    /\ \E rd \in 1..Len(renderers) :
          /\ DictHas(renderers[rd]._cache, ret.form)
          /\ DictGet(renderers[rd]._cache, ret.form) # returned[1]
          /\ returned[1] = render_var(TopCtx(rd, DefaultSettings(FALSE, FALSE, TRUE)),
                                      ret.form, <<>>).val
          /\ RefsOf(renderers[rd].scope, ret.form) # {}

\* C29: a render_var or render_values call, whatever its settings and whether
\* it returns or raises, leaves the registered sources, the resolved scopes
\* and every layer payload as they were, also when the value rendered uses
\* the = modifier.
C29_RenderKeepsStore ==
    [][ (ret'.op \in {"render_var", "render_values"} /\ calls' = calls + 1)
            => /\ sources' = sources
               /\ scopes' = scopes
               /\ layered_store' = layered_store ]_vars

\* render_var has rendered ${y=d} with y a non-empty string of the layer, and
\* the layer holds the value of x it was given
C29_Witness ==
    /\ ret.op = "render_var" /\ ret.err = "none"
    /\ text = <<"$", "{", "y", "=", "d", "}">>
    /\ returned = <<StrVal(<<"a", "b", "c", "d">>)>>
    /\ DictGet(DictGet(layered_store, "a").payload, "x") = StrVal(text)
    /\ DictGet(DictGet(layered_store, "a").payload, "y") = StrVal(<<"a", "b", "c", "d">>)

\* render_var has raised on ${y=d} with y empty, and the layer holds the
\* empty y it was given
C29_WitnessRaised ==
    /\ ret.op = "render_var" /\ ret.err = "AttributeError"
    /\ text = <<"$", "{", "y", "=", "d", "}">>
    /\ DictHas(DictGet(layered_store, "a").payload, "y")
    /\ DictGet(DictGet(layered_store, "a").payload, "y") = StrVal(<<>>)

(***************************************************************************)
(* Claims about the frames of a render_var call, under SpecFrames.         *)
(***************************************************************************)
\* the names the text v refers to
RECURSIVE NamesIn(_)
NamesIn(v) ==
    LET i == FirstOf(v, {var_symbol}) IN
    IF i = 0 THEN {}
    ELSE IF IsRef(SubSeq(v, i, Len(v)))
    THEN {JoinChars(RefName(SubSeq(v, i, Len(v))))}
            \cup NamesIn(SubSeq(v, i + RefLen(SubSeq(v, i, Len(v))), Len(v)))
    ELSE NamesIn(SubSeq(v, i + 1, Len(v)))

\* the keys the call that runs can ask for: its own, those the values of the
\* store refer to and those the fallback of on_undefined_error refers to
ReferencedKeys ==
    LET payload == DictGet(layered_store, "a").payload
        bottom == frames[Len(frames)]
    IN {bottom.key_ctl}
         \cup UNION {NamesIn(DictGet(payload, k).v) : k \in DictKeys(payload)}
         \cup (IF bottom.settings.on_undefined_error.kind = "value"
               THEN NamesIn(bottom.settings.on_undefined_error.val.v) ELSE {})

\* the parents of the innermost frame hold pairwise distinct keys
ChainDistinct ==
    \A i \in 2..Len(frames), j \in 2..Len(frames) :
        i # j => frames[i].key_ctl # frames[j].key_ctl

DepthBounded ==
    frames # <<>> => Len(frames) <= Cardinality(ReferencedKeys) + 1

\* C28: a render_var call over a finite store, with a literal or raising
\* on_undefined_error, ends by returning or raising; while it runs, the keys
\* of its nested frames are pairwise distinct but for the innermost one, which
\* may repeat a key of a parent, and the frames are never more than the
\* distinct keys referenced plus one.
C28_RenderTerminates ==
    /\ [](ChainDistinct /\ DepthBounded)
    /\ (frames # <<>>) ~> (frames = <<>>)

\* the innermost frame repeats the key of the outermost one: x asks for y and
\* y for x, three frames on two distinct keys
C28_Witness ==
    /\ KeyStack(frames) = <<"x", "y", "x">>
    /\ Cardinality(ReferencedKeys) = 2

\* the call has returned a value rendered through a nested frame
C28_WitnessReturned ==
    /\ frames = <<>> /\ ret.op = "render_var" /\ ret.err = "none"
    /\ returned = <<StrVal(<<"Y", "-", "U">>)>>

StepsAgree(r, err, val, cache) ==
    /\ r.err = err
    /\ r.cache = cache
    /\ r.err = "none" => val = <<r.val>>

\* the steps end as render_var does: when the first call of a renderer, or a
\* call with cache=False, ends, the exception, the value and the cache
\* are those of render_var
StepsAgreeWithRender ==
    [][ (frames # <<>> /\ frames' = <<>>
         /\ (calls = 2 \/ ~frames[Len(frames)].settings.cache))
        =>
        LET bottom == frames[Len(frames)]
            r == render_var(Ctx(sources, scopes, layered_store, NoScope,
                                bottom.settings, <<>>),
                            bottom.key_ctl,
                            IF bottom.settings.cache THEN <<>>
                            ELSE renderers[1]._cache)
        IN StepsAgree(r, ret'.err, returned', renderers'[1]._cache) ]_vars
====
